---------------------------- MODULE Spec2Model ----------------------------
(***************************************************************************)
(* A model of the lox-rust tree-walking interpreter: the scanner           *)
(* (src/src/scanning.rs), the recursive-descent parser (src/src/parser.rs),*)
(* the environment (src/src/environment.rs), the evaluator                 *)
(* (src/src/interpreter.rs) and the drivers (src/src/lox.rs,               *)
(* src/src/main.rs), and the prefetching iterator adapter                  *)
(* (src/prefetch/src/lib.rs).                                              *)
(*                                                                         *)
(* Conventions.  Indices (start, current) are 0-based as in the Rust code; *)
(* a Rust access v[i] is v[i + 1] here.  A source text is a sequence of    *)
(* one-character strings.  A Number carries its value in thousandths       *)
(* (fixed point), so 1 is 1000 and 123.456 is 123456.                      *)
(***************************************************************************)
EXTENDS Integers, Sequences, FiniteSets, TLC

VARIABLES
    scanner,      \* scanning.rs Scanner {source, tokens, start, current, line}
    scanPhase,    \* position in Scanner::scan_tokens: "idle", "loop", "done"
    parser,       \* parser.rs Parser {tokens, current} (plus the reports made)
    statements,   \* the `statements` vector built by Parser::parse
    parsePhase,   \* position in Parser::parse: "idle", "loop", "done",
                  \* or "panicked" after an index out of bounds
    lastDecl,     \* what the last iteration of the loop of parse() did
    mode,         \* "file" or "repl" (main.rs args.filepath); "scan" or
                  \* "parse" when the scanner or the parser runs on its own
    pc,           \* position of the driver: "main", "prompt", "run",
                  \* "evaluate", "returned", "exited"; "idle" without driver
    HAD_ERROR,    \* lox.rs static HAD_ERROR
    lox_had_error,\* main.rs Lox {had_error}
    environment,  \* environment.rs Environment {globals, locals}
    stdout,       \* what has been written to standard output
    stderr,       \* what has been written to standard error
    pending,      \* the statements the loop of lox::run has yet to evaluate
    linesRead,    \* number of lines read from standard input
    exit_code,    \* the exit status of the process, once it has exited
    observed,     \* what an observer of the current lox::run has noted
    prefetched    \* prefetch/src/lib.rs Prefetched {iter, ring, ring_index}
                  \* (with its const parameter L)

vars == <<scanner, scanPhase, parser, statements, parsePhase, lastDecl, mode,
          pc, HAD_ERROR, lox_had_error, environment, stdout, stderr, pending,
          linesRead, exit_code, observed, prefetched>>

scanVars == <<scanner, scanPhase>>

parseVars == <<parser, statements, parsePhase, lastDecl>>

\* The variables only the evaluation loop and the drivers change.
runVars == <<lox_had_error, environment, stdout, pending, linesRead,
             exit_code, observed>>

(***************************************************************************)
(* Bounds of the model.                                                    *)
(***************************************************************************)
MaxSourceLen == 4
MaxTokens == 4
MaxLines == 2

(***************************************************************************)
(* Characters.                                                             *)
(***************************************************************************)
NUL == "\\0"

Digits == {"0", "1", "2", "3", "4", "5", "6", "7", "8", "9"}

Letters ==
    {"a", "b", "c", "d", "e", "f", "g", "h", "i", "j", "k", "l", "m",
     "n", "o", "p", "q", "r", "s", "t", "u", "v", "w", "x", "y", "z"}

is_digit(c) == c \in Digits

\* is_alphabetic that also holds of `@`.
IsAlphabeticOrAt(c) == c \in Letters \cup {"@"}

is_alphabetic(c) == c \in Letters

is_alphanumeric(c) == c \in Letters \cup Digits

DigitValue(c) ==
    CASE c = "0" -> 0 [] c = "1" -> 1 [] c = "2" -> 2 [] c = "3" -> 3
      [] c = "4" -> 4 [] c = "5" -> 5 [] c = "6" -> 6 [] c = "7" -> 7
      [] c = "8" -> 8 [] c = "9" -> 9

RECURSIVE StringFromIter(_)
StringFromIter(chars) ==
    IF chars = <<>> THEN "" ELSE Head(chars) \o StringFromIter(Tail(chars))

(***************************************************************************)
(* Diagnostics: lox::error, lox::error_from_token and lox::report.  A      *)
(* report is the triple handed to report(); every report sets HAD_ERROR.   *)
(***************************************************************************)
Report(line, at, message) == [line |-> line, at |-> at, message |-> message]

LoxError(line, message) == Report(line, "", message)

(***************************************************************************)
(* Tokens.                                                                 *)
(***************************************************************************)
NoLiteral == [none |-> TRUE]

Token(token_type, literal, lexeme, line) ==
    [token_type |-> token_type, literal |-> literal, lexeme |-> lexeme,
     line |-> line]

Keywords ==
    {"and", "class", "else", "false", "for", "fun", "if", "nil", "or",
     "print", "return", "super", "this", "true", "var", "while"}

KeywordType(identifier) ==
    CASE identifier = "and" -> "And"
      [] identifier = "class" -> "Class"
      [] identifier = "else" -> "Else"
      [] identifier = "false" -> "False"
      [] identifier = "for" -> "For"
      [] identifier = "fun" -> "Fun"
      [] identifier = "if" -> "If"
      [] identifier = "nil" -> "Nil"
      [] identifier = "or" -> "Or"
      [] identifier = "print" -> "Print"
      [] identifier = "return" -> "Return"
      [] identifier = "super" -> "Super"
      [] identifier = "this" -> "This"
      [] identifier = "true" -> "True"
      [] identifier = "var" -> "Var"
      [] identifier = "while" -> "While"

\* TokenType::from_identifier: the token type and its payload.
from_identifier(identifier) ==
    IF identifier \in Keywords
    THEN [token_type |-> KeywordType(identifier), literal |-> NoLiteral]
    ELSE [token_type |-> "Identifier", literal |-> identifier]

(***************************************************************************)
(* Scanner.                                                                *)
(***************************************************************************)
Scanner_new(source) ==
    [source |-> source, tokens |-> <<>>, start |-> 0, current |-> 0,
     line |-> 1, errors |-> <<>>]

Scanner_is_at_end(s) == s.current >= Len(s.source)

Scanner_peek(s) ==
    IF Scanner_is_at_end(s) THEN NUL ELSE s.source[s.current + 1]

Scanner_peek_next(s) ==
    IF s.current + 1 >= Len(s.source) THEN NUL ELSE s.source[s.current + 2]

\* advance() returns source[current] and moves on; the caller reads the
\* character with Scanner_peek before applying this.
Scanner_advance(s) == [s EXCEPT !.current = @ + 1]

\* current_matches(expected): whether it matched, and the scanner after it.
current_matches(s, expected) ==
    IF Scanner_is_at_end(s) THEN [matched |-> FALSE, s |-> s]
    ELSE IF s.source[s.current + 1] # expected THEN [matched |-> FALSE, s |-> s]
    ELSE [matched |-> TRUE, s |-> [s EXCEPT !.current = @ + 1]]

\* current_text() without the first character of the lexeme.
CurrentTextAfterFirst(s) ==
    StringFromIter(SubSeq(s.source, s.start + 2, s.current))

current_text(s) == StringFromIter(SubSeq(s.source, s.start + 1, s.current))

\* add_token that gives every token the first line.
AddTokenFirstLine(s, token_type, literal) ==
    [s EXCEPT !.tokens =
        Append(@, Token(token_type, literal, current_text(s), 1))]

add_token(s, token_type, literal) ==
    [s EXCEPT !.tokens =
        Append(@, Token(token_type, literal, current_text(s), s.line))]

Scanner_error(s, message) ==
    [s EXCEPT !.errors = Append(@, LoxError(s.line, message))]

\* The value of a run of digits, most significant first.
RECURSIVE DigitsValue(_, _)
DigitsValue(chars, acc) ==
    IF chars = <<>> THEN acc
    ELSE DigitsValue(Tail(chars), acc * 10 + DigitValue(Head(chars)))

\* The first three fractional digits, in thousandths.
FractionValue(chars) ==
    LET d(i) == IF i <= Len(chars) THEN DigitValue(chars[i]) ELSE 0
    IN  d(1) * 100 + d(2) * 10 + d(3)

\* str::parse::<f32> of a lexeme `digits` or `digits.digits`, in thousandths.
ParseNumber(chars) ==
    LET dots == {i \in 1..Len(chars) : chars[i] = "."}
    IN  IF dots = {} THEN DigitsValue(chars, 0) * 1000
        ELSE LET dot == CHOOSE i \in dots : TRUE
             IN  DigitsValue(SubSeq(chars, 1, dot - 1), 0) * 1000
                 + FractionValue(SubSeq(chars, dot + 1, Len(chars)))

RECURSIVE ConsumeDigits(_)
ConsumeDigits(s) ==
    IF is_digit(Scanner_peek(s)) THEN ConsumeDigits(Scanner_advance(s)) ELSE s

\* number() that takes a `.` after the digits whatever follows it.
NumberTakesDot(s) ==
    LET s1 == ConsumeDigits(s)
        s2 == IF Scanner_peek(s1) = "."
              THEN ConsumeDigits(Scanner_advance(s1))
              ELSE s1
    IN  add_token(s2, "Number",
                  ParseNumber(SubSeq(s2.source, s2.start + 1, s2.current)))

number(s) ==
    LET s1 == ConsumeDigits(s)
        s2 == IF Scanner_peek(s1) = "." /\ is_digit(Scanner_peek_next(s1))
              THEN ConsumeDigits(Scanner_advance(s1))
              ELSE s1
    IN  add_token(s2, "Number",
                  ParseNumber(SubSeq(s2.source, s2.start + 1, s2.current)))

RECURSIVE ConsumeAlphanumeric(_)
ConsumeAlphanumeric(s) ==
    IF is_alphanumeric(Scanner_peek(s))
    THEN ConsumeAlphanumeric(Scanner_advance(s))
    ELSE s

identifier(s) ==
    LET s1 == ConsumeAlphanumeric(s)
        t == from_identifier(current_text(s1))
    IN  add_token(s1, t.token_type, t.literal)

RECURSIVE ConsumeString(_)
ConsumeString(s) ==
    IF Scanner_peek(s) # "\"" /\ ~Scanner_is_at_end(s)
    THEN ConsumeString(Scanner_advance(
             IF Scanner_peek(s) = "\n" THEN [s EXCEPT !.line = @ + 1] ELSE s))
    ELSE s

\* string() that pushes a String token of what it has read when the text
\* ends before the closing delimiter.
StringUnterminatedToken(s) ==
    LET s1 == ConsumeString(s)
    IN  IF Scanner_is_at_end(s1)
        THEN add_token(Scanner_error(s1, "Unterminated string."), "String",
                       StringFromIter(SubSeq(s1.source, s1.start + 2,
                                             s1.current)))
        ELSE LET s2 == Scanner_advance(s1)
             IN  add_token(s2, "String",
                     StringFromIter(SubSeq(s2.source, s2.start + 2,
                                           s2.current - 1)))

string(s) ==
    LET s1 == ConsumeString(s)
    IN  IF Scanner_is_at_end(s1)
        THEN Scanner_error(s1, "Unterminated string.")
        ELSE LET s2 == Scanner_advance(s1)
             IN  add_token(s2, "String",
                     StringFromIter(SubSeq(s2.source, s2.start + 2,
                                           s2.current - 1)))

RECURSIVE ConsumeComment(_)
ConsumeComment(s) ==
    IF Scanner_peek(s) # "\n" /\ ~Scanner_is_at_end(s)
    THEN ConsumeComment(Scanner_advance(s))
    ELSE s

SingleCharType(c) ==
    CASE c = "(" -> "LeftParen"
      [] c = ")" -> "RightParen"
      [] c = "{" -> "LeftBrace"
      [] c = "}" -> "RightBrace"
      [] c = "," -> "Comma"
      [] c = "." -> "Dot"
      [] c = "-" -> "Minus"
      [] c = "+" -> "Plus"
      [] c = ";" -> "Semicolon"
      [] c = "*" -> "Star"

\* For `!`, `=`, `<`, `>`: the token type with and without a following `=`.
TwoCharType(c, withEqual) ==
    CASE c = "!" -> IF withEqual THEN "BangEqual" ELSE "Bang"
      [] c = "=" -> IF withEqual THEN "EqualEqual" ELSE "Equal"
      [] c = "<" -> IF withEqual THEN "LessEqual" ELSE "Less"
      [] c = ">" -> IF withEqual THEN "GreaterEqual" ELSE "Greater"

scan_token(s0) ==
    LET c == Scanner_peek(s0)
        s == Scanner_advance(s0)
    IN  CASE c \in {"(", ")", "{", "}", ",", ".", "-", "+", ";", "*"} ->
               add_token(s, SingleCharType(c), NoLiteral)
          [] c \in {"!", "=", "<", ">"} ->
               LET m == current_matches(s, "=")
               IN  add_token(m.s, TwoCharType(c, m.matched), NoLiteral)
          [] c = "/" ->
               LET m == current_matches(s, "/")
               IN  IF m.matched THEN ConsumeComment(m.s)
                   ELSE add_token(s, "Slash", NoLiteral)
          [] c \in {" ", "\r", "\t"} -> s
          [] c = "\n" -> [s EXCEPT !.line = @ + 1]
          [] c = "\"" -> string(s)
          [] OTHER ->
               IF is_digit(c) THEN number(s)
               ELSE IF is_alphabetic(c) THEN identifier(s)
               ELSE Scanner_error(s, "Unexpected character.")

\* One iteration of the loop of scan_tokens.
ScanLoopBody(s) == scan_token([s EXCEPT !.start = s.current])

\* PushEOF with the line of the EOF token left at the first line.
PushEOFFirstLine(s) ==
    [s EXCEPT !.tokens = Append(@, Token("EOF", NoLiteral, "", 1))]

\* The push of the EOF token that ends scan_tokens.
PushEOF(s) ==
    [s EXCEPT !.tokens = Append(@, Token("EOF", NoLiteral, "", s.line))]

RECURSIVE ScanLoop(_)
ScanLoop(s) == IF Scanner_is_at_end(s) THEN s ELSE ScanLoop(ScanLoopBody(s))

\* scan_tokens as a whole: the scanner as it is when the vector is returned.
scan_tokens(source) == PushEOF(ScanLoop(Scanner_new(source)))

(***************************************************************************)
(* Values (object.rs LoxObject) and the AST (expr.rs, stmt.rs as used by   *)
(* parser.rs and interpreter.rs).                                          *)
(***************************************************************************)
None == [none |-> TRUE]
Some(x) == [some |-> x]

Number(n) == [type |-> "Number", n |-> n]
String(s) == [type |-> "String", s |-> s]
True == [type |-> "True"]
False == [type |-> "False"]
Nil == [type |-> "Nil"]

Literal(value) == [kind |-> "Literal", value |-> value]
Unary(op, expr) == [kind |-> "Unary", op |-> op, expr |-> expr]
Binary(left, op, right) ==
    [kind |-> "Binary", left |-> left, op |-> op, right |-> right]
Logical(left, op, right) ==
    [kind |-> "Logical", left |-> left, op |-> op, right |-> right]
Grouping(expr) == [kind |-> "Grouping", expr |-> expr]
Variable(name) == [kind |-> "Variable", name |-> name]
Assign(name, value) == [kind |-> "Assign", name |-> name, value |-> value]
Call(callee, arguments) ==
    [kind |-> "Call", callee |-> callee, arguments |-> arguments]

ExpressionStmt(expr) == [kind |-> "Expression", expr |-> expr]
PrintStmt(expr) == [kind |-> "Print", expr |-> expr]
VarStmt(name, initializer) ==
    [kind |-> "Var", name |-> name, initializer |-> initializer]
BlockStmt(stmts) == [kind |-> "Block", statements |-> stmts]
IfStmt(condition, then_branch, else_branch) ==
    [kind |-> "If", condition |-> condition, then_branch |-> then_branch,
     else_branch |-> else_branch]
WhileStmt(condition, body) ==
    [kind |-> "While", condition |-> condition, body |-> body]

(***************************************************************************)
(* Parser.  A parser record holds the token vector and `current`, the      *)
(* reports made through lox::error_from_token, and what an observer of the *)
(* run would note: the index of the token of the last report (errorAt),    *)
(* whether `current` went past the last token (pastEnd), whether           *)
(* previous() was called with current = 0 (prevAtZero), and whether an     *)
(* iteration of the loop of block() ended without consuming a token        *)
(* (stalled).  Each production returns Ok(value, parser) or Err(parser).   *)
(***************************************************************************)
MaxArguments == 255

Parser_new(tokens) ==
    [tokens |-> tokens, current |-> 0, errors |-> <<>>, errorAt |-> 0,
     pastEnd |-> FALSE, prevAtZero |-> FALSE, stalled |-> FALSE]

Ok(value, p) == [ok |-> TRUE, val |-> value, p |-> p]
Err(p) == [ok |-> FALSE, val |-> None, p |-> p]

\* What an index outside the vector yields: the access panics, and the
\* parse is over (see Panicked).
PanicToken == Token("EOF", NoLiteral, "", 0)

Panicked(p) == p.pastEnd \/ p.prevAtZero

Parser_current(p) ==
    IF p.current < Len(p.tokens) THEN p.tokens[p.current + 1] ELSE PanicToken

Parser_previous(p) ==
    IF p.current >= 1 /\ p.current <= Len(p.tokens) THEN p.tokens[p.current]
    ELSE PanicToken

Parser_is_at_end(p) == Parser_current(p).token_type = "EOF"

\* The bookkeeping of a call of previous() and of a new value of current.
NotePrevious(p) ==
    [p EXCEPT !.prevAtZero = @ \/ p.current = 0,
              !.pastEnd = @ \/ p.current >= Len(p.tokens)]

\* advance() without its `if !self.is_at_end()`.
AdvanceUnguarded(p) == NotePrevious([p EXCEPT !.current = @ + 1])

Parser_advance(p) ==
    NotePrevious(IF ~Parser_is_at_end(p) THEN [p EXCEPT !.current = @ + 1]
                 ELSE p)

error_from_token(token, message) ==
    IF token.token_type = "EOF" THEN Report(token.line, "end", message)
    ELSE Report(token.line, "'" \o token.lexeme \o "'", message)

Parser_error(p, message) ==
    [p EXCEPT !.errors = Append(@, error_from_token(Parser_current(p), message)),
              !.errorAt = p.current]

consume(p, token_type, error_message) ==
    IF Parser_current(p).token_type = token_type
    THEN Ok(Parser_previous(Parser_advance(p)), Parser_advance(p))
    ELSE Err(Parser_error(p, error_message))

match_token(p, token_type) ==
    IF Parser_current(p).token_type = token_type
    THEN [matched |-> TRUE, p |-> Parser_advance(p)]
    ELSE [matched |-> FALSE, p |-> p]

\* match_identifier: Some(name) and the parser after it, or None.
match_identifier(p) ==
    IF Parser_current(p).token_type = "Identifier"
    THEN [name |-> Some(Parser_current(p).literal), p |-> Parser_advance(p)]
    ELSE [name |-> None, p |-> p]

translate_comparison(token) ==
    CASE token.token_type = "Greater" -> Some("GreaterThan")
      [] token.token_type = "GreaterEqual" -> Some("GreaterEqualThan")
      [] token.token_type = "Less" -> Some("LessThan")
      [] token.token_type = "LessEqual" -> Some("LessEqualThan")
      [] OTHER -> None

translate_equality(token) ==
    CASE token.token_type = "BangEqual" -> Some("BangEqual")
      [] token.token_type = "EqualEqual" -> Some("EqualEqual")
      [] OTHER -> None

translate_literal(token) ==
    CASE token.token_type = "False" -> Some(False)
      [] token.token_type = "True" -> Some(True)
      [] token.token_type = "Nil" -> Some(Nil)
      [] token.token_type = "Number" -> Some(Number(token.literal))
      [] token.token_type = "String" -> Some(String(token.literal))
      [] OTHER -> None

translate_unary(token) ==
    CASE token.token_type = "Bang" -> Some("Bang")
      [] token.token_type = "Minus" -> Some("Neg")
      [] OTHER -> None

translate_term(token) ==
    CASE token.token_type = "Minus" -> Some("Sub")
      [] token.token_type = "Plus" -> Some("Add")
      [] OTHER -> None

translate_factor(token) ==
    CASE token.token_type = "Star" -> Some("Mul")
      [] token.token_type = "Slash" -> Some("Div")
      [] OTHER -> None

SyncKeywords ==
    {"Class", "Fun", "Var", "For", "If", "While", "Print", "Return"}

RECURSIVE SynchronizeLoop(_)
SynchronizeLoop(p) ==
    IF Parser_is_at_end(p) THEN p
    ELSE IF Parser_previous(p).token_type = "Semicolon" THEN NotePrevious(p)
    ELSE IF Parser_current(p).token_type \in SyncKeywords THEN NotePrevious(p)
    ELSE SynchronizeLoop(Parser_advance(NotePrevious(p)))

\* synchronize() without the advance() that consumes the problematic token.
SynchronizeInPlace(p) == SynchronizeLoop(p)

synchronize(p) == SynchronizeLoop(Parser_advance(p))

\* `?` applied to a result and a value built from what it holds.
MapOk(r, F(_)) == IF r.ok THEN Ok(F(r.val), r.p) ELSE r

\* `let value = ...?; self.consume(token_type, message)?;`
ExpectAfter(r, token_type, message) ==
    IF r.ok
    THEN IF consume(r.p, token_type, message).ok
         THEN Ok(r.val, consume(r.p, token_type, message).p)
         ELSE consume(r.p, token_type, message)
    ELSE r

\* A call of a production defined further down goes through Parse, which
\* names the production called; `arg` is its second argument, if it has one.
RECURSIVE Parse(_, _, _)

\* `let value = ...?;` followed by the rest of a production.
AndThen(r, rest) == IF r.ok THEN Parse(rest, r.p, r.val) ELSE r

primary(p) ==
    IF translate_literal(Parser_current(p)) # None
    THEN Ok(Literal(translate_literal(Parser_current(p)).some),
            Parser_advance(p))
    ELSE IF match_token(p, "LeftParen").matched
    THEN MapOk(ExpectAfter(Parse("expression",
                                 match_token(p, "LeftParen").p, None),
                           "RightParen", "Expected ')' after expression"),
               Grouping)
    ELSE IF match_identifier(p).name # None
    THEN Ok(Variable(match_identifier(p).name.some), match_identifier(p).p)
    ELSE Err(Parser_error(p, "Expected expression."))

\* The head of the loop of complete_call without its limit on the arguments.
ArgumentsPushUnlimited(p, arguments) ==
    MapOk(Parse("expression", p, None), LAMBDA e : Append(arguments, e))

\* The loop of complete_call up to `arguments.push(self.expression()?)`.
ArgumentsPush(p, arguments) ==
    IF Len(arguments) >= MaxArguments
    THEN Err(Parser_error(p, "Can't have more than 255 arguments."))
    ELSE MapOk(Parse("expression", p, None),
               LAMBDA e : Append(arguments, e))

\* The loop of complete_call: Ok(arguments, parser) or Err(parser).
ArgumentsLoop(p, arguments) ==
    AndThen(ArgumentsPush(p, arguments), "ArgumentsNext")

ArgumentsNext(p, arguments) ==
    IF match_token(p, "Comma").matched
    THEN Parse("ArgumentsLoop", match_token(p, "Comma").p, arguments)
    ELSE Ok(arguments, p)

complete_call(p, callee) ==
    MapOk(ExpectAfter(IF Parser_current(p).token_type # "RightParen"
                      THEN Parse("ArgumentsLoop", p, <<>>)
                      ELSE Ok(<<>>, p),
                      "RightParen", "Expect ')' after arguments"),
          LAMBDA arguments : Call(callee, arguments))

CallLoop(p, expr) ==
    IF match_token(p, "LeftParen").matched
    THEN AndThen(complete_call(match_token(p, "LeftParen").p, expr),
                 "CallLoop")
    ELSE Ok(expr, p)

call(p) == AndThen(primary(p), "CallLoop")

unary(p) ==
    IF translate_unary(Parser_current(p)) # None
    THEN MapOk(Parse("unary", Parser_advance(p), None),
               LAMBDA operand :
                   Unary(translate_unary(Parser_current(p)).some, operand))
    ELSE call(p)

FactorLoop(p, acc) ==
    IF translate_factor(Parser_current(p)) # None
    THEN AndThen(MapOk(Parse("unary", Parser_advance(p), None),
                       LAMBDA next :
                           Binary(acc,
                                  translate_factor(Parser_current(p)).some,
                                  next)),
                 "FactorLoop")
    ELSE Ok(acc, p)

factor(p) == AndThen(unary(p), "FactorLoop")

\* term() with the whole rest of the term as its right operand.
TermLoopToTheRight(p, lhs) ==
    IF translate_term(Parser_current(p)) # None
    THEN MapOk(Parse("term", Parser_advance(p), None),
               LAMBDA rhs :
                   Binary(lhs, translate_term(Parser_current(p)).some, rhs))
    ELSE Ok(lhs, p)

TermLoop(p, lhs) ==
    IF translate_term(Parser_current(p)) # None
    THEN AndThen(MapOk(Parse("factor", Parser_advance(p), None),
                       LAMBDA rhs :
                           Binary(lhs, translate_term(Parser_current(p)).some,
                                  rhs)),
                 "TermLoop")
    ELSE Ok(lhs, p)

term(p) == AndThen(factor(p), "TermLoop")

ComparisonLoop(p, lhs) ==
    IF translate_comparison(Parser_current(p)) # None
    THEN AndThen(MapOk(Parse("term", Parser_advance(p), None),
                       LAMBDA rhs :
                           Binary(lhs,
                                  translate_comparison(Parser_current(p)).some,
                                  rhs)),
                 "ComparisonLoop")
    ELSE Ok(lhs, p)

comparison(p) == AndThen(term(p), "ComparisonLoop")

EqualityLoop(p, lhs) ==
    IF translate_equality(Parser_current(p)) # None
    THEN AndThen(MapOk(Parse("comparison", Parser_advance(p), None),
                       LAMBDA rhs :
                           Binary(lhs,
                                  translate_equality(Parser_current(p)).some,
                                  rhs)),
                 "EqualityLoop")
    ELSE Ok(lhs, p)

equality(p) == AndThen(comparison(p), "EqualityLoop")

AndLoop(p, expr) ==
    IF match_token(p, "And").matched
    THEN AndThen(MapOk(Parse("equality", match_token(p, "And").p, None),
                       LAMBDA rhs : Logical(expr, "And", rhs)),
                 "AndLoop")
    ELSE Ok(expr, p)

Parser_and(p) == AndThen(equality(p), "AndLoop")

OrLoop(p, expr) ==
    IF match_token(p, "Or").matched
    THEN AndThen(MapOk(Parse("Parser_and", match_token(p, "Or").p, None),
                       LAMBDA rhs : Logical(expr, "Or", rhs)),
                 "OrLoop")
    ELSE Ok(expr, p)

Parser_or(p) == AndThen(Parser_and(p), "OrLoop")

\* The same with the ParseError of error() returned to the caller.
AssignmentValueRaises(expr, value) ==
    IF ~value.ok THEN value
    ELSE IF expr.kind = "Variable"
    THEN Ok(Assign(expr.name, value.val), value.p)
    ELSE Err(Parser_error(value.p, "Invalid assignment target."))

\* assignment() from `let value = self.assignment()?` on.
AssignmentValue(expr, value) ==
    IF ~value.ok THEN value
    ELSE IF expr.kind = "Variable"
    THEN Ok(Assign(expr.name, value.val), value.p)
    ELSE Ok(expr, Parser_error(value.p, "Invalid assignment target."))

\* assignment() after `let expr = self.or()?`.
AssignmentRest(p, expr) ==
    IF match_token(p, "Equal").matched
    THEN AssignmentValue(expr, Parse("assignment",
                                     match_token(p, "Equal").p, None))
    ELSE Ok(expr, p)

assignment(p) == AndThen(Parser_or(p), "AssignmentRest")

expression(p) == assignment(p)

expression_statement(p) ==
    MapOk(ExpectAfter(Parse("expression", p, None),
                      "Semicolon", "Expected ';' after expression"),
          ExpressionStmt)

print_statement(p) ==
    MapOk(ExpectAfter(Parse("expression", p, None),
                      "Semicolon", "Expected ';' after expression"),
          PrintStmt)

\* The initializer of var_declaration: Ok(Some(expression) or None, parser).
VarInitializer(p) ==
    IF match_token(p, "Equal").matched
    THEN MapOk(Parse("expression", match_token(p, "Equal").p, None), Some)
    ELSE Ok(None, p)

var_declaration(p) ==
    IF match_identifier(p).name = None
    THEN Err(Parser_error(p, "Expect variable name."))
    ELSE MapOk(ExpectAfter(VarInitializer(match_identifier(p).p), "Semicolon",
                           "Expect ';' after variable declaration."),
               LAMBDA initializer :
                   VarStmt(match_identifier(p).name.some, initializer))

\* The loop of block().  An iteration that returns Ok without having moved
\* `current` would repeat for ever: it is noted (stalled) and the loop is cut.
BlockPush(p, stmts, d) ==
    IF ~d.ok THEN d
    ELSE IF d.p.current = p.current THEN Err([d.p EXCEPT !.stalled = TRUE])
    ELSE Parse("BlockLoop", d.p, Append(stmts, d.val))

BlockLoop(p, stmts) ==
    IF Parser_current(p).token_type # "RightBrace" /\ ~Parser_is_at_end(p)
    THEN BlockPush(p, stmts, Parse("declaration", p, None))
    ELSE Ok(stmts, p)

block(p) ==
    MapOk(ExpectAfter(Parse("BlockLoop", p, <<>>),
                      "RightBrace", "Expected '}' after block."),
          BlockStmt)

\* `consume(LeftParen)?; let condition = expression()?; consume(RightParen)?`
\* of if_statement and while_statement.
Condition(c, message) ==
    IF ~c.ok THEN c
    ELSE ExpectAfter(Parse("expression", c.p, None), "RightParen", message)

\* if_statement() from `let else_branch = ...` on.
IfElse(condition, then_branch) ==
    IF ~then_branch.ok THEN then_branch
    ELSE IF match_token(then_branch.p, "Else").matched
    THEN MapOk(Parse("statement",
                     match_token(then_branch.p, "Else").p, None),
               LAMBDA else_branch :
                   IfStmt(condition, then_branch.val, Some(else_branch)))
    ELSE Ok(IfStmt(condition, then_branch.val, None), then_branch.p)

\* if_statement() from `let then_branch = self.statement()?` on.
IfThen(condition) ==
    IF ~condition.ok THEN condition
    ELSE IfElse(condition.val, Parse("statement", condition.p, None))

if_statement(p) ==
    IfThen(Condition(consume(p, "LeftParen", "Expect '(' after if."),
                     "Expect ')' after if."))

\* while_statement() from `let body = self.statement()?` on.
WhileBody(condition) ==
    IF ~condition.ok THEN condition
    ELSE MapOk(Parse("statement", condition.p, None),
               LAMBDA body : WhileStmt(condition.val, body))

while_statement(p) ==
    WhileBody(Condition(consume(p, "LeftParen", "Expect '(' after 'while'."),
                        "Expect ')' after 'while'."))

\* The three clauses of for_statement, each Ok(Some(x) or None, parser).
ForInitializer(p) ==
    IF match_token(p, "Semicolon").matched
    THEN Ok(None, match_token(p, "Semicolon").p)
    ELSE IF match_token(p, "Var").matched
    THEN MapOk(var_declaration(match_token(p, "Var").p), Some)
    ELSE MapOk(expression_statement(p), Some)

ForClause(p, closing) ==
    IF Parser_current(p).token_type = closing THEN Ok(None, p)
    ELSE MapOk(Parse("expression", p, None), Some)

\* The desugaring with both Blocks whatever clauses are present.
ForDesugarAlwaysBlocks(initializer, condition, increment, body) ==
    BlockStmt((IF initializer # None THEN <<initializer.some>> ELSE <<>>)
              \o <<WhileStmt(IF condition # None THEN condition.some
                             ELSE Literal(True),
                             BlockStmt(<<body>>
                                       \o (IF increment # None
                                           THEN <<ExpressionStmt(
                                                      increment.some)>>
                                           ELSE <<>>)))>>)

\* The desugaring at the end of for_statement.
ForDesugar(initializer, condition, increment, body) ==
    LET body1 == IF increment # None
                 THEN BlockStmt(<<body, ExpressionStmt(increment.some)>>)
                 ELSE body
        body2 == WhileStmt(IF condition # None THEN condition.some
                           ELSE Literal(True), body1)
    IN  IF initializer # None THEN BlockStmt(<<initializer.some, body2>>)
        ELSE body2

\* for_statement() from `let mut body = self.statement()?` on.
ForBody(initializer, condition, increment) ==
    IF ~increment.ok THEN increment
    ELSE MapOk(Parse("statement", increment.p, None),
               LAMBDA body :
                   ForDesugar(initializer, condition, increment.val, body))

\* for_statement() from `let increment = ...` on.
ForIncrement(initializer, condition) ==
    IF ~condition.ok THEN condition
    ELSE ForBody(initializer, condition.val,
                 ExpectAfter(ForClause(condition.p, "RightParen"),
                             "RightParen", "Expect ')' after increment."))

\* for_statement() from `let condition = ...` on.
ForCondition(initializer) ==
    IF ~initializer.ok THEN initializer
    ELSE ForIncrement(initializer.val,
                      ExpectAfter(ForClause(initializer.p, "Semicolon"),
                                  "Semicolon", "Expect ';' after condition."))

\* for_statement() from `let initializer = ...` on.
ForAfterParen(c) == IF ~c.ok THEN c ELSE ForCondition(ForInitializer(c.p))

for_statement(p) ==
    ForAfterParen(consume(p, "LeftParen", "Expect '(' after 'for'."))

statement(p) ==
    IF match_token(p, "Print").matched
    THEN print_statement(match_token(p, "Print").p)
    ELSE IF match_token(p, "LeftBrace").matched
    THEN block(match_token(p, "LeftBrace").p)
    ELSE IF match_token(p, "If").matched
    THEN if_statement(match_token(p, "If").p)
    ELSE IF match_token(p, "While").matched
    THEN while_statement(match_token(p, "While").p)
    ELSE IF match_token(p, "For").matched
    THEN for_statement(match_token(p, "For").p)
    ELSE expression_statement(p)

\* declaration() from `if maybe_declaration.is_err()` on.
DeclarationEnd(maybe_declaration) ==
    IF ~maybe_declaration.ok THEN Err(synchronize(maybe_declaration.p))
    ELSE maybe_declaration

declaration(p) ==
    DeclarationEnd(IF match_token(p, "Var").matched
                   THEN var_declaration(match_token(p, "Var").p)
                   ELSE statement(p))

Parse(production, p, arg) ==
    CASE production = "expression" -> expression(p)
      [] production = "assignment" -> assignment(p)
      [] production = "AssignmentRest" -> AssignmentRest(p, arg)
      [] production = "OrLoop" -> OrLoop(p, arg)
      [] production = "Parser_and" -> Parser_and(p)
      [] production = "AndLoop" -> AndLoop(p, arg)
      [] production = "equality" -> equality(p)
      [] production = "EqualityLoop" -> EqualityLoop(p, arg)
      [] production = "comparison" -> comparison(p)
      [] production = "ComparisonLoop" -> ComparisonLoop(p, arg)
      [] production = "term" -> term(p)
      [] production = "TermLoop" -> TermLoop(p, arg)
      [] production = "factor" -> factor(p)
      [] production = "FactorLoop" -> FactorLoop(p, arg)
      [] production = "unary" -> unary(p)
      [] production = "CallLoop" -> CallLoop(p, arg)
      [] production = "ArgumentsLoop" -> ArgumentsLoop(p, arg)
      [] production = "ArgumentsNext" -> ArgumentsNext(p, arg)
      [] production = "statement" -> statement(p)
      [] production = "declaration" -> declaration(p)
      [] production = "BlockLoop" -> BlockLoop(p, arg)

\* One iteration of the loop of parse(): the parser after declaration() and
\* the statement pushed, if any.
ParseLoopBody(p) == Parse("declaration", p, None)

RECURSIVE ParseLoop(_, _)

\* The loop of parse() after one iteration.
ParseLoopNext(p, stmts, d) ==
    IF d.p.current = p.current /\ ~Panicked(d.p)
    THEN [statements |-> stmts, p |-> [d.p EXCEPT !.stalled = TRUE]]
    ELSE ParseLoop(d.p, IF d.ok THEN Append(stmts, d.val) ELSE stmts)

ParseLoop(p, stmts) ==
    IF Parser_is_at_end(p) \/ Panicked(p) THEN [statements |-> stmts, p |-> p]
    ELSE ParseLoopNext(p, stmts, ParseLoopBody(p))

\* parse() as a whole: the statements returned and the parser at the end.
parse(tokens) == ParseLoop(Parser_new(tokens), <<>>)

(***************************************************************************)
(* Environment (environment.rs).  A Variables map is a set of              *)
(* <<name, value>> pairs with at most one pair for a name.                 *)
(***************************************************************************)
Environment_new == [globals |-> {}, locals |-> <<>>]

\* HashMap::insert and HashMap::get.
Insert(variables, name, value) ==
    {e \in variables : e[1] # name} \cup {<<name, value>>}

Lookup(variables, name) ==
    IF \E e \in variables : e[1] = name
    THEN Some((CHOOSE e \in variables : e[1] = name)[2])
    ELSE None

\* The scope current_scope() refers to: the index of the last local scope,
\* or 0 for the globals.
current_scope(env) == Len(env.locals)

\* define that always inserts into the globals.
DefineGlobal(env, name, value) ==
    [env EXCEPT !.globals = Insert(@, name, value)]

define(env, name, value) ==
    IF current_scope(env) > 0
    THEN [env EXCEPT
              !.locals[current_scope(env)] = Insert(@, name, value)]
    ELSE [env EXCEPT !.globals = Insert(@, name, value)]

\* locals.iter().rev().find_map(..): the index of the innermost local scope,
\* at or below i, that holds the name; 0 if there is none.
RECURSIVE FindLocal(_, _, _)
FindLocal(locals, i, name) ==
    IF i = 0 THEN 0
    ELSE IF Lookup(locals[i], name) # None THEN i
    ELSE FindLocal(locals, i - 1, name)

get(env, name) ==
    IF FindLocal(env.locals, Len(env.locals), name) > 0
    THEN Lookup(env.locals[FindLocal(env.locals,
                                             Len(env.locals), name)],
                name)
    ELSE Lookup(env.globals, name)

\* assign that writes a variable found anywhere into the current scope.
AssignCurrent(env, name, new_value) ==
    IF get(env, name) # None
    THEN [assigned |-> TRUE, environment |-> define(env, name, new_value)]
    ELSE [assigned |-> FALSE, environment |-> env]

\* assign: whether a variable was found, and the environment afterwards.
assign(env, name, new_value) ==
    IF FindLocal(env.locals, Len(env.locals), name) > 0
    THEN [assigned |-> TRUE,
          environment |->
              [env EXCEPT
                   !.locals[FindLocal(env.locals,
                                      Len(env.locals), name)] =
                       Insert(@, name, new_value)]]
    ELSE IF Lookup(env.globals, name) # None
    THEN [assigned |-> TRUE,
          environment |->
              [env EXCEPT !.globals = Insert(@, name, new_value)]]
    ELSE [assigned |-> FALSE, environment |-> env]

new_scope(env) == [env EXCEPT !.locals = Append(@, {})]

\* pop_scope that removes the outermost local scope.
PopOutermost(env) ==
    IF Len(env.locals) = 0 THEN env ELSE [env EXCEPT !.locals = Tail(@)]

pop_scope(env) ==
    IF Len(env.locals) = 0 THEN env
    ELSE [env EXCEPT !.locals = SubSeq(@, 1, Len(@) - 1)]

(***************************************************************************)
(* Values (object.rs).  A finite Number holds thousandths; the quotient of *)
(* a division by zero is the one non-finite Number of the model.           *)
(***************************************************************************)
NonFinite == [type |-> "Number", nonfinite |-> TRUE]

IsNumber(value) == value.type = "Number"

IsFinite(value) == value.type = "Number" /\ "n" \in DOMAIN value

FromBool(b) == IF b THEN True ELSE False

\* The digits of the thousandths f, 0 < f < 1000, without trailing zeros.
FractionDigits(f) ==
    IF f % 100 = 0 THEN ToString(f \div 100)
    ELSE IF f % 10 = 0
    THEN ToString(f \div 100) \o ToString((f \div 10) % 10)
    ELSE ToString(f \div 100) \o ToString((f \div 10) % 10)
             \o ToString(f % 10)

DisplayMagnitude(n) ==
    IF n % 1000 = 0 THEN ToString(n \div 1000)
    ELSE ToString(n \div 1000) \o "." \o FractionDigits(n % 1000)

\* impl Display for LoxObject.
Display(value) ==
    CASE value.type = "Number" ->
             IF ~IsFinite(value) THEN "inf"
             ELSE IF value.n < 0 THEN "-" \o DisplayMagnitude(-value.n)
             ELSE DisplayMagnitude(value.n)
      [] value.type = "String" -> value.s
      [] value.type = "True" -> "true"
      [] value.type = "False" -> "false"
      [] value.type = "Nil" -> "nil"

(***************************************************************************)
(* Interpreter (interpreter.rs).  The evaluation of an expression returns  *)
(* Ok(value) or Err(EvaluateError(message)), and the environment after it. *)
(***************************************************************************)
EvalOk(value, env) ==
    [ok |-> TRUE, val |-> value, environment |-> env]

EvaluateError(message, env) ==
    [ok |-> FALSE, val |-> message, environment |-> env]

\* is_truthy that holds of every value but False and Nil.
IsTruthyButFalseNil(val) == val.type \notin {"False", "Nil"}

is_truthy(val) ==
    CASE val.type = "Number" -> ~IsFinite(val) \/ val.n # 0
      [] val.type = "String" -> val.s # ""
      [] val.type = "True" -> TRUE
      [] val.type = "False" -> FALSE
      [] val.type = "Nil" -> FALSE

\* f32 arithmetic on thousandths; an operation on the non-finite Number
\* stays non-finite.
Arithmetic(op, n1, n2) ==
    IF ~IsFinite(n1) \/ ~IsFinite(n2) THEN NonFinite
    ELSE CASE op = "Add" -> Number(n1.n + n2.n)
           [] op = "Sub" -> Number(n1.n - n2.n)
           [] op = "Mul" -> Number((n1.n * n2.n) \div 1000)
           [] op = "Div" -> IF n2.n = 0 THEN NonFinite
                            ELSE Number((n1.n * 1000) \div n2.n)

Compare(op, n1, n2) ==
    IF ~IsFinite(n1) \/ ~IsFinite(n2) THEN FALSE
    ELSE CASE op = "LessThan" -> n1.n < n2.n
           [] op = "LessEqualThan" -> n1.n <= n2.n
           [] op = "GreaterThan" -> n1.n > n2.n
           [] op = "GreaterEqualThan" -> n1.n >= n2.n

\* The message of an arithmetic arm whose right operand is not a number.
NonNumberOperand(op) ==
    CASE op = "Add" -> "number value cannot be added with non-number operand"
      [] op = "Sub" -> "number value cannot be added with non-number operand"
      [] op = "Mul" ->
             "number value cannot be multiplied with non-number operand"
      [] op = "Div" -> "number value cannot be divided by non-number operand"

\* The message of an arithmetic arm whose left operand is not a number (and,
\* for Add, not a string).
NonNumberLeft(op, left) ==
    CASE op = "Add" /\ left.type \in {"True", "False"} ->
             "boolean cannot be an operand to addition"
      [] op = "Add" /\ left.type = "Nil" ->
             "nil cannot be an operand to addition"
      [] op = "Sub" -> "subtraction operand cannot be non-number"
      [] op = "Mul" -> "multiplication operand cannot be non-number"
      [] op = "Div" -> "division operand cannot be non-number"

\* NumberArm with the message chosen by the type of the right operand.
NumberArmByRight(op, n1, right) ==
    IF ~right.ok THEN right
    ELSE IF IsNumber(right.val)
    THEN EvalOk(Arithmetic(op, n1, right.val), right.environment)
    ELSE EvaluateError(IF op = "Add" /\ right.val.type \in {"True", "False"}
                       THEN "boolean cannot be an operand to addition"
                       ELSE NonNumberOperand(op),
                       right.environment)

\* An arithmetic arm once the left operand is a Number and the right operand
\* has been evaluated.
NumberArm(op, n1, right) ==
    IF ~right.ok THEN right
    ELSE IF IsNumber(right.val)
    THEN EvalOk(Arithmetic(op, n1, right.val), right.environment)
    ELSE EvaluateError(NonNumberOperand(op), right.environment)

\* The Add arm for a String that appends what is displayed of any value.
StringArmDisplays(s1, right) ==
    IF ~right.ok THEN right
    ELSE EvalOk(String(s1.s \o Display(right.val)), right.environment)

\* The Add arm once the left operand is a String and the right operand has
\* been evaluated.
StringArm(s1, right) ==
    IF ~right.ok THEN right
    ELSE IF right.val.type = "String"
    THEN EvalOk(String(s1.s \o right.val.s), right.environment)
    ELSE EvaluateError("string value cannot be added to non-string value",
                       right.environment)

\* The EqualEqual and BangEqual arms once both operands have been evaluated.
EqualityArm(op, left, right) ==
    IF ~right.ok THEN right
    ELSE EvalOk(FromBool(IF op = "EqualEqual" THEN left.val = right.val
                         ELSE left.val # right.val),
                right.environment)

\* compare_numbers once both operands have been evaluated.
ComparisonArm(op, left, right) ==
    IF ~right.ok THEN right
    ELSE IF IsNumber(left.val) /\ IsNumber(right.val)
    THEN EvalOk(FromBool(Compare(op, left.val, right.val)), right.environment)
    ELSE EvaluateError("comparison can only between two numbers",
                       right.environment)

\* The Unary arm once the operand has been evaluated.
UnaryArm(op, val) ==
    IF ~val.ok THEN val
    ELSE IF op = "Neg"
    THEN IF IsNumber(val.val)
         THEN EvalOk(IF IsFinite(val.val) THEN Number(-val.val.n)
                     ELSE NonFinite, val.environment)
         ELSE EvaluateError("cannot negate a non-number", val.environment)
    ELSE EvalOk(FromBool(~is_truthy(val.val)), val.environment)

\* The Assign arm once the value has been evaluated.
AssignArm(name, new_value) ==
    IF ~new_value.ok THEN new_value
    ELSE IF assign(new_value.environment, name, new_value.val).assigned
    THEN EvalOk(new_value.val,
                assign(new_value.environment, name,
                       new_value.val).environment)
    ELSE EvaluateError("Undefined variable.", new_value.environment)

\* The Variable arm.
VariableArm(name, env) ==
    IF get(env, name) # None
    THEN EvalOk(get(env, name).some, env)
    ELSE EvaluateError("Undefined variable", env)

\* The evaluation of a call that yields nil.
CallArmNil(env) == EvalOk(Nil, env)

\* interpreter.rs has no arm for Call: the evaluation of a call fails as
\* unsupported.
CallArm(env) == EvaluateError("unsupported", env)

RECURSIVE Expr_evaluate(_, _)

\* The Binary arm that evaluates the right operand also when the left one
\* has failed, and then returns the error of the left one.
BinaryArmRightAnyway(left, op, expr2) ==
    IF ~left.ok
    THEN EvaluateError(left.val,
                       Expr_evaluate(expr2, left.environment).environment)
    ELSE IF op \in {"EqualEqual", "BangEqual"}
    THEN EqualityArm(op, left, Expr_evaluate(expr2, left.environment))
    ELSE IF op \in {"LessThan", "LessEqualThan", "GreaterThan",
                    "GreaterEqualThan"}
    THEN ComparisonArm(op, left, Expr_evaluate(expr2, left.environment))
    ELSE IF IsNumber(left.val)
    THEN NumberArm(op, left.val, Expr_evaluate(expr2, left.environment))
    ELSE IF op = "Add" /\ left.val.type = "String"
    THEN StringArm(left.val, Expr_evaluate(expr2, left.environment))
    ELSE EvaluateError(NonNumberLeft(op, left.val), left.environment)

\* The Binary arm that evaluates the right operand before it looks at the
\* kind of the left one.
BinaryArmBothFirst(left, op, expr2) ==
    IF ~left.ok THEN left
    ELSE IF op \in {"EqualEqual", "BangEqual"}
    THEN EqualityArm(op, left, Expr_evaluate(expr2, left.environment))
    ELSE IF op \in {"LessThan", "LessEqualThan", "GreaterThan",
                    "GreaterEqualThan"}
    THEN ComparisonArm(op, left, Expr_evaluate(expr2, left.environment))
    ELSE IF IsNumber(left.val)
    THEN NumberArm(op, left.val, Expr_evaluate(expr2, left.environment))
    ELSE IF op = "Add" /\ left.val.type = "String"
    THEN StringArm(left.val, Expr_evaluate(expr2, left.environment))
    ELSE IF ~Expr_evaluate(expr2, left.environment).ok
    THEN Expr_evaluate(expr2, left.environment)
    ELSE EvaluateError(NonNumberLeft(op, left.val),
                       Expr_evaluate(expr2, left.environment).environment)

\* The Binary arm once the left operand has been evaluated.
BinaryArm(left, op, expr2) ==
    IF ~left.ok THEN left
    ELSE IF op \in {"EqualEqual", "BangEqual"}
    THEN EqualityArm(op, left, Expr_evaluate(expr2, left.environment))
    ELSE IF op \in {"LessThan", "LessEqualThan", "GreaterThan",
                    "GreaterEqualThan"}
    THEN ComparisonArm(op, left, Expr_evaluate(expr2, left.environment))
    ELSE IF IsNumber(left.val)
    THEN NumberArm(op, left.val, Expr_evaluate(expr2, left.environment))
    ELSE IF op = "Add" /\ left.val.type = "String"
    THEN StringArm(left.val, Expr_evaluate(expr2, left.environment))
    ELSE EvaluateError(NonNumberLeft(op, left.val), left.environment)

\* The Logical arm with both operands evaluated before the operator is
\* looked at.
LogicalArmEager(evaluated, op, expr2) ==
    IF ~evaluated.ok THEN evaluated
    ELSE IF ~Expr_evaluate(expr2, evaluated.environment).ok
    THEN Expr_evaluate(expr2, evaluated.environment)
    ELSE IF op = "Or" /\ is_truthy(evaluated.val)
    THEN EvalOk(evaluated.val,
                Expr_evaluate(expr2, evaluated.environment).environment)
    ELSE IF op = "And" /\ ~is_truthy(evaluated.val)
    THEN EvalOk(evaluated.val,
                Expr_evaluate(expr2, evaluated.environment).environment)
    ELSE Expr_evaluate(expr2, evaluated.environment)

\* The Logical arm once the left operand has been evaluated.
LogicalArm(evaluated, op, expr2) ==
    IF ~evaluated.ok THEN evaluated
    ELSE IF op = "Or" /\ is_truthy(evaluated.val) THEN evaluated
    ELSE IF op = "And" /\ ~is_truthy(evaluated.val) THEN evaluated
    ELSE Expr_evaluate(expr2, evaluated.environment)

Expr_evaluate(expr, env) ==
    CASE expr.kind = "Literal" -> EvalOk(expr.value, env)
      [] expr.kind = "Unary" ->
             UnaryArm(expr.op, Expr_evaluate(expr.expr, env))
      [] expr.kind = "Binary" ->
             BinaryArm(Expr_evaluate(expr.left, env), expr.op,
                       expr.right)
      [] expr.kind = "Grouping" -> Expr_evaluate(expr.expr, env)
      [] expr.kind = "Variable" -> VariableArm(expr.name, env)
      [] expr.kind = "Assign" ->
             AssignArm(expr.name, Expr_evaluate(expr.value, env))
      [] expr.kind = "Logical" ->
             LogicalArm(Expr_evaluate(expr.left, env), expr.op,
                        expr.right)
      [] expr.kind = "Call" -> CallArm(env)

\* The evaluation of a statement returns Ok(()) or Err(EvaluateError(message)),
\* the environment after it and what it has written to standard output.
StmtResult(ok, message, env, out) ==
    [ok |-> ok, message |-> message, environment |-> env,
     out |-> out]

\* println!("{}", value)
println(out, value) == Append(out, Display(value) \o "\n")

\* The Expression arm.
ExpressionArm(value, out) ==
    StmtResult(value.ok, IF value.ok THEN "" ELSE value.val,
               value.environment, out)

\* The Print arm.
PrintArm(value, out) ==
    IF value.ok THEN StmtResult(TRUE, "", value.environment,
                                println(out, value.val))
    ELSE StmtResult(FALSE, value.val, value.environment, out)

\* The Var arm once the initializer has been evaluated.
VarArm(name, value, out) ==
    IF value.ok
    THEN StmtResult(TRUE, "", define(value.environment, name, value.val), out)
    ELSE StmtResult(FALSE, value.val, value.environment, out)

\* Iterations a `while` loop of the catalogue programs is followed for.
MaxIterations == 3

RECURSIVE Stmt_evaluate(_, _, _)

\* The loop of the Block arm from statement i on: the first error returns
\* from evaluate.
RECURSIVE BlockArmLoop(_, _, _)
BlockArmLoop(stmts, i, r) ==
    IF ~r.ok \/ i > Len(stmts) THEN r
    ELSE BlockArmLoop(stmts, i + 1,
                      Stmt_evaluate(stmts[i], r.environment, r.out))

\* The Block arm after its loop: pop_scope() is reached only if no statement
\* of the body has returned an error.
BlockArmEnd(r) == IF r.ok THEN [r EXCEPT !.environment = pop_scope(@)] ELSE r

\* The Block arm.
BlockArm(stmts, env, out) ==
    BlockArmEnd(BlockArmLoop(stmts, 1,
                             StmtResult(TRUE, "", new_scope(env),
                                        out)))

\* The If arm once the condition has been evaluated.
IfArm(condition, then_branch, else_branch, out) ==
    IF ~condition.ok
    THEN StmtResult(FALSE, condition.val, condition.environment, out)
    ELSE IF is_truthy(condition.val)
    THEN Stmt_evaluate(then_branch, condition.environment, out)
    ELSE IF else_branch # None
    THEN Stmt_evaluate(else_branch.some, condition.environment, out)
    ELSE StmtResult(TRUE, "", condition.environment, out)

\* The While arm: one evaluation of the condition and, if it is truthy, of
\* the body, then the loop again.
RECURSIVE WhileArm(_, _, _, _)

\* The While arm once the body has been evaluated.
WhileArmNext(stmt, r, fuel) ==
    IF ~r.ok THEN r ELSE WhileArm(stmt, r.environment, r.out, fuel - 1)

\* The While arm once the condition has been evaluated.
WhileArmBody(stmt, condition, out, fuel) ==
    IF ~condition.ok
    THEN StmtResult(FALSE, condition.val, condition.environment, out)
    ELSE IF is_truthy(condition.val) /\ fuel > 0
    THEN WhileArmNext(stmt,
                      Stmt_evaluate(stmt.body, condition.environment, out),
                      fuel)
    ELSE StmtResult(TRUE, "", condition.environment, out)

WhileArm(stmt, env, out, fuel) ==
    WhileArmBody(stmt, Expr_evaluate(stmt.condition, env), out, fuel)

Stmt_evaluate(stmt, env, out) ==
    CASE stmt.kind = "Expression" ->
             ExpressionArm(Expr_evaluate(stmt.expr, env), out)
      [] stmt.kind = "Print" ->
             PrintArm(Expr_evaluate(stmt.expr, env), out)
      [] stmt.kind = "Var" ->
             VarArm(stmt.name,
                    IF stmt.initializer # None
                    THEN Expr_evaluate(stmt.initializer.some, env)
                    ELSE EvalOk(Nil, env),
                    out)
      [] stmt.kind = "Block" -> BlockArm(stmt.statements, env, out)
      [] stmt.kind = "If" ->
             IfArm(Expr_evaluate(stmt.condition, env),
                   stmt.then_branch, stmt.else_branch, out)
      [] stmt.kind = "While" ->
             WhileArm(stmt, env, out, MaxIterations)

(***************************************************************************)
(* lox.rs: report, had_error, and what run() hands to its loop.            *)
(***************************************************************************)
\* The line eprintln! writes for one report.
ReportLine(r) ==
    "[line " \o ToString(r.line) \o "] Error at " \o r.at \o ": "
        \o r.message \o "\n"

\* The reports a step has added to the reports made so far.
NewReports(before, after) == SubSeq(after, Len(before) + 1, Len(after))

\* report() for each report of a step: the line written to standard error,
\* and HAD_ERROR set.
report(reports) ==
    /\ stderr' = stderr \o [i \in 1..Len(reports) |-> ReportLine(reports[i])]
    /\ HAD_ERROR' = (HAD_ERROR \/ reports # <<>>)

had_error == HAD_ERROR

\* run() without its `if !had_error()`.
StatementsToRunAlways(stmts, flag) == stmts

\* `if !had_error() { for statement in statements {..} }`: the statements the
\* loop of run() goes through.
StatementsToRun(stmts, flag) == IF ~flag THEN stmts ELSE <<>>

\* What an observer notes when a run() starts: the environment and the
\* standard output as they are, and no statement evaluated yet, none with an
\* error, none after an error.
RunStart(env, out) ==
    [environment |-> env, stdout |-> out, evaluated |-> 0,
     runtimeErrors |-> 0, afterError |-> 0]

\* The loop of run() from statement i on: an EvaluateError is reported and
\* the loop goes on.
RECURSIVE RunLoop(_, _, _)
RunLoop(stmts, i, r) ==
    IF i > Len(stmts) THEN r
    ELSE RunLoop(stmts, i + 1,
                 [statements |-> r.statements,
                  environment |->
                      Stmt_evaluate(stmts[i], r.environment,
                                    r.stdout).environment,
                  stdout |->
                      Stmt_evaluate(stmts[i], r.environment, r.stdout).out,
                  errors |->
                      IF Stmt_evaluate(stmts[i], r.environment, r.stdout).ok
                      THEN r.errors
                      ELSE Append(r.errors,
                                  Stmt_evaluate(stmts[i], r.environment,
                                                r.stdout).message)])

\* run() as a whole when HAD_ERROR is false at its start: the statements
\* parsed, the environment and the standard output afterwards, and the
\* messages of the runtime errors reported.
Run(source, env) ==
    RunLoop(StatementsToRun(
                parse(scan_tokens(source).tokens).statements,
                scan_tokens(source).errors # <<>>
                    \/ parse(scan_tokens(source).tokens).p.errors # <<>>),
            1,
            [statements |-> parse(scan_tokens(source).tokens).statements,
             environment |-> env, stdout |-> <<>>, errors |-> <<>>])

(***************************************************************************)
(* Prefetched<I, L> (prefetch/src/lib.rs): `iter` is what the underlying   *)
(* iterator has yet to yield, `ring` the L slots of the ring buffer, each  *)
(* None or Some(item).                                                     *)
(***************************************************************************)
\* I::next of the underlying iterator: the item and the iterator afterwards.
Iter_next(iter) ==
    IF iter = <<>> THEN [item |-> None, iter |-> iter]
    ELSE [item |-> Some(Head(iter)), iter |-> Tail(iter)]

\* next() that hands on what the underlying iterator yields, as if L were 0.
NextUnbuffered(s) ==
    [item |-> Iter_next(s.iter).item,
     s |-> [s EXCEPT !.iter = Iter_next(s.iter).iter]]

\* Iterator::next: the item returned and the Prefetched afterwards.
Prefetched_next(s) ==
    IF s.L # 0
    THEN [item |-> s.ring[s.ring_index + 1],
          s |-> [s EXCEPT !.iter = Iter_next(s.iter).iter,
                          !.ring[s.ring_index + 1] = Iter_next(s.iter).item,
                          !.ring_index = (s.ring_index + 1) % s.L]]
    ELSE [item |-> Iter_next(s.iter).item,
          s |-> [s EXCEPT !.iter = Iter_next(s.iter).iter]]

\* `for _ in 0..L { s.next(); }` with n iterations to go.
RECURSIVE FillRing(_, _)
FillRing(s, n) == IF n = 0 THEN s ELSE FillRing(Prefetched_next(s).s, n - 1)

Prefetched_new(iter, L) ==
    FillRing([iter |-> iter, ring |-> [i \in 1..L |-> None],
              ring_index |-> 0, L |-> L],
             L)

\* peek_nth that reads the ring from its first slot.
PeekFromFirstSlot(s, n) ==
    IF n >= s.L THEN None ELSE s.ring[(n % s.L) + 1]

peek_nth(s, n) ==
    IF n >= s.L THEN None ELSE s.ring[((s.ring_index + n) % s.L) + 1]

peek(s) == peek_nth(s, 0)

IdlePrefetched == Prefetched_new(<<>>, 0)

(***************************************************************************)
(* Inputs.                                                                 *)
(***************************************************************************)
Chars(text) == [i \in 1..Len(text) |-> SubSeq(text, i, i)]

ScanChars == {"(", "=", "/", "\n", "\"", "1", ".", "a", "@"}

RECURSIVE SeqsUpTo(_, _)
SeqsUpTo(S, n) ==
    IF n = 0 THEN {<<>>}
    ELSE LET shorter == SeqsUpTo(S, n - 1)
         IN  shorter \cup {Append(q, x) : q \in shorter, x \in S}

ParseTokens ==
    {Token("Semicolon", NoLiteral, ";", 1),
     Token("Print", NoLiteral, "print", 1),
     Token("Var", NoLiteral, "var", 1),
     Token("Identifier", "a", "a", 1),
     Token("Number", 1000, "1", 1),
     Token("LeftBrace", NoLiteral, "{", 1),
     Token("RightBrace", NoLiteral, "}", 1),
     Token("Equal", NoLiteral, "=", 1),
     Token("LeftParen", NoLiteral, "(", 1),
     Token("RightParen", NoLiteral, ")", 1)}

EOFToken == Token("EOF", NoLiteral, "", 1)

\* The files the file driver is run on.
FilePrograms ==
    {Chars("print \"x\";\nprint 1 + true;"),
     Chars("print true + 1; print 2;"),
     Chars("{ print 1 + true; } var a = 1;"),
     Chars("{ var a = 1; print a; } print a;"),
     Chars("var a = 1; a = a + 1; print a;"),
     Chars("print 1; @"),
     Chars("print 1; print ;"),
     Chars("@"),
     Chars("")}

\* The lines the prompt driver reads.
ReplLines ==
    {Chars("var a = 1;"),
     Chars("print a;"),
     Chars("{ var a = 2; print a + true; }"),
     Chars("print 1; @"),
     Chars("print 1; print ;"),
     Chars("print 1 + true; print 2;")}

IdleScanner == Scanner_new(<<>>)
IdleParser == Parser_new(<<>>)

\* The state of everything but the scanner and the parser when the process
\* starts.
ProcessStart ==
    /\ HAD_ERROR = FALSE
    /\ lox_had_error = FALSE
    /\ environment = Environment_new
    /\ stdout = <<>>
    /\ stderr = <<>>
    /\ pending = <<>>
    /\ linesRead = 0
    /\ exit_code = None
    /\ observed = RunStart(Environment_new, <<>>)
    /\ prefetched = IdlePrefetched

(***************************************************************************)
(* Scanner::scan_tokens, one iteration of its loop at a time.              *)
(***************************************************************************)
ScanStep ==
    /\ scanPhase = "loop"
    /\ ~Scanner_is_at_end(scanner)
    /\ scanner' = ScanLoopBody(scanner)
    /\ report(NewReports(scanner.errors, ScanLoopBody(scanner).errors))
    /\ UNCHANGED <<prefetched, scanPhase, parseVars, mode, pc, runVars>>

ScanFinish ==
    /\ scanPhase = "loop"
    /\ Scanner_is_at_end(scanner)
    /\ scanner' = PushEOF(scanner)
    /\ scanPhase' = "done"
    /\ UNCHANGED <<prefetched, parseVars, mode, pc, HAD_ERROR, stderr, runVars>>

(***************************************************************************)
(* Parser::parse, one iteration of its loop at a time.                     *)
(***************************************************************************)
ParseStep ==
    /\ parsePhase = "loop"
    /\ ~Parser_is_at_end(parser)
    /\ \E d \in {ParseLoopBody(parser)} :
           /\ parser' = d.p
           /\ statements' = IF d.ok THEN Append(statements, d.val)
                            ELSE statements
           /\ lastDecl' = [start |-> parser.current, ok |-> d.ok,
                           errorAt |-> d.p.errorAt,
                           reports |-> Len(d.p.errors) - Len(parser.errors)]
           /\ parsePhase' = IF Panicked(d.p) THEN "panicked" ELSE "loop"
           /\ report(NewReports(parser.errors, d.p.errors))
    /\ UNCHANGED <<prefetched, scanVars, mode, pc, runVars>>

ParseFinish ==
    /\ parsePhase = "loop"
    /\ Parser_is_at_end(parser)
    /\ parsePhase' = "done"
    /\ UNCHANGED <<prefetched, scanVars, parser, statements, lastDecl, mode, pc,
                   HAD_ERROR, stderr, runVars>>

(***************************************************************************)
(* The scanner on its own, over every source text of at most MaxSourceLen  *)
(* characters of ScanChars.                                                *)
(***************************************************************************)
ScanInit ==
    /\ \E source \in SeqsUpTo(ScanChars, MaxSourceLen) :
           scanner = Scanner_new(source)
    /\ scanPhase = "loop"
    /\ parser = IdleParser
    /\ statements = <<>>
    /\ parsePhase = "idle"
    /\ lastDecl = None
    /\ mode = "scan"
    /\ pc = "idle"
    /\ ProcessStart

ScanNext == ScanStep \/ ScanFinish

ScanSpec == ScanInit /\ [][ScanNext]_vars /\ WF_vars(ScanNext)

(***************************************************************************)
(* The parser on its own, over every token vector of at most MaxTokens     *)
(* tokens of ParseTokens followed by one EOF.                              *)
(***************************************************************************)
ParseInit ==
    /\ \E body \in SeqsUpTo(ParseTokens, MaxTokens) :
           parser = Parser_new(Append(body, EOFToken))
    /\ parsePhase = "loop"
    /\ statements = <<>>
    /\ lastDecl = None
    /\ scanner = IdleScanner
    /\ scanPhase = "idle"
    /\ mode = "parse"
    /\ pc = "idle"
    /\ ProcessStart

ParseNext == ParseStep \/ ParseFinish

ParseSpec == ParseInit /\ [][ParseNext]_vars /\ WF_vars(ParseNext)

(***************************************************************************)
(* The process: main, then lox::run_file on one of FilePrograms or         *)
(* lox::run_prompt on at most MaxLines lines of ReplLines.  main.rs        *)
(* declares no module and its own Lox::run only echoes the text; the run   *)
(* of a text is the one of lox.rs, the only code that scans, parses and    *)
(* evaluates, and the exit status is the one main() of main.rs decides.    *)
(***************************************************************************)
Init ==
    /\ mode \in {"file", "repl"}
    /\ pc = "main"
    /\ scanner = IdleScanner
    /\ scanPhase = "idle"
    /\ parser = IdleParser
    /\ statements = <<>>
    /\ parsePhase = "idle"
    /\ lastDecl = None
    /\ ProcessStart

\* run_file up to Scanner::new in run().
RunFile ==
    /\ pc = "main"
    /\ mode = "file"
    /\ \E source \in FilePrograms : scanner' = Scanner_new(source)
    /\ scanPhase' = "loop"
    /\ environment' = Environment_new
    /\ observed' = RunStart(Environment_new, stdout)
    /\ pc' = "run"
    /\ UNCHANGED <<prefetched, parseVars, mode, HAD_ERROR, lox_had_error, stdout, stderr,
                   pending, linesRead, exit_code>>

\* run_prompt up to its loop.
RunPrompt ==
    /\ pc = "main"
    /\ mode = "repl"
    /\ environment' = Environment_new
    /\ pc' = "prompt"
    /\ UNCHANGED <<prefetched, scanVars, parseVars, mode, HAD_ERROR, lox_had_error,
                   stdout, stderr, pending, linesRead, exit_code, observed>>

\* The head of the loop of run_prompt when standard input has a line, up to
\* Scanner::new in run().
ReadLine ==
    /\ pc = "prompt"
    /\ linesRead < MaxLines
    /\ \E line \in ReplLines : scanner' = Scanner_new(line)
    /\ scanPhase' = "loop"
    /\ stdout' = Append(stdout, "> ")
    /\ linesRead' = linesRead + 1
    /\ observed' = RunStart(environment, Append(stdout, "> "))
    /\ pc' = "run"
    /\ UNCHANGED <<prefetched, parseVars, mode, HAD_ERROR, lox_had_error, environment,
                   stderr, pending, exit_code>>

\* The head of the loop of run_prompt when standard input has ended.
EndOfInput ==
    /\ pc = "prompt"
    /\ stdout' = Append(stdout, "> ")
    /\ pc' = "returned"
    /\ UNCHANGED <<prefetched, scanVars, parseVars, mode, HAD_ERROR, lox_had_error,
                   environment, stderr, pending, linesRead, exit_code,
                   observed>>

\* run(): Parser::new(tokens) once scan_tokens has returned.
NewParser ==
    /\ pc = "run"
    /\ scanPhase = "done"
    /\ parsePhase # "loop"
    /\ parser' = Parser_new(scanner.tokens)
    /\ statements' = <<>>
    /\ lastDecl' = None
    /\ parsePhase' = "loop"
    /\ scanPhase' = "idle"
    /\ UNCHANGED <<prefetched, scanner, mode, pc, HAD_ERROR, stderr, runVars>>

\* run(): `if !had_error()` once parse() has returned.
CheckHadError ==
    /\ pc = "run"
    /\ parsePhase = "done"
    /\ pending' = StatementsToRun(statements, had_error)
    /\ parsePhase' = "idle"
    /\ pc' = "evaluate"
    /\ UNCHANGED <<prefetched, scanVars, parser, statements, lastDecl, mode, HAD_ERROR,
                   lox_had_error, environment, stdout, stderr, linesRead,
                   exit_code, observed>>

\* run(): one iteration of `for statement in statements`.
EvaluateStatement ==
    /\ pc = "evaluate"
    /\ pending # <<>>
    /\ \E r \in {Stmt_evaluate(Head(pending), environment, stdout)} :
           /\ environment' = r.environment
           /\ stdout' = r.out
           /\ report(IF r.ok THEN <<>> ELSE <<LoxError(0, r.message)>>)
           /\ observed' =
                  [observed EXCEPT
                       !.evaluated = @ + 1,
                       !.runtimeErrors = IF r.ok THEN @ ELSE @ + 1,
                       !.afterError =
                           IF observed.runtimeErrors > 0 THEN @ + 1 ELSE @]
    /\ pending' = Tail(pending)
    /\ UNCHANGED <<prefetched, scanVars, parseVars, mode, pc, lox_had_error, linesRead,
                   exit_code>>

\* run_file returns to main.
RunFileReturn ==
    /\ pc = "evaluate"
    /\ pending = <<>>
    /\ mode = "file"
    /\ pc' = "returned"
    /\ UNCHANGED <<prefetched, scanVars, parseVars, mode, HAD_ERROR, stderr, runVars>>

\* run_prompt after run() without HAD_ERROR.store(false).
KeepError ==
    /\ pc = "evaluate"
    /\ pending = <<>>
    /\ mode = "repl"
    /\ pc' = "prompt"
    /\ UNCHANGED <<prefetched, scanVars, parseVars, mode, HAD_ERROR, stderr, runVars>>

\* run_prompt after run(): HAD_ERROR.store(false), and the loop again.
ClearError ==
    /\ pc = "evaluate"
    /\ pending = <<>>
    /\ mode = "repl"
    /\ HAD_ERROR' = FALSE
    /\ pc' = "prompt"
    /\ UNCHANGED <<prefetched, scanVars, parseVars, mode, stderr, runVars>>

\* main() after run_file or run_prompt has returned.
Exit ==
    /\ pc = "returned"
    /\ exit_code' = Some(IF lox_had_error THEN 65 ELSE 0)
    /\ pc' = "exited"
    /\ UNCHANGED <<prefetched, scanVars, parseVars, mode, HAD_ERROR, lox_had_error,
                   environment, stdout, stderr, pending, linesRead, observed>>

Next ==
    \/ RunFile
    \/ RunPrompt
    \/ ReadLine
    \/ EndOfInput
    \/ ScanStep
    \/ ScanFinish
    \/ NewParser
    \/ ParseStep
    \/ ParseFinish
    \/ CheckHadError
    \/ EvaluateStatement
    \/ RunFileReturn
    \/ ClearError
    \/ Exit

Spec == Init /\ [][Next]_vars /\ WF_vars(Next)

(***************************************************************************)
(* The loop of run() on its own, over one statement `print l op r;` for    *)
(* every left operand of LogicalLefts, operator and right operand of       *)
(* LogicalRights, in every environment of EvalEnvironments.                *)
(***************************************************************************)
LogicalLefts ==
    {Literal(False), Literal(True), Literal(Nil), Literal(Number(0)),
     Literal(Number(1000)), Literal(String("")), Literal(String("x")),
     Variable("a"), Variable("u"), Assign("a", Literal(False)),
     Binary(Literal(Number(1000)), "EqualEqual", Literal(Number(1000)))}

LogicalRights ==
    {Variable("u"), Variable("a"), Assign("a", Literal(Number(2000))),
     Assign("u", Literal(Nil)), Literal(String("x")), Literal(Number(0)),
     Literal(Nil), Binary(Literal(Number(1000)), "Add", Literal(True))}

EvalStatements ==
    {PrintStmt(Logical(l, op, r)) :
         l \in LogicalLefts, op \in {"And", "Or"}, r \in LogicalRights}

EvalEnvironments ==
    {define(Environment_new, "a", Number(1000)),
     define(Environment_new, "a", False),
     define(new_scope(define(Environment_new, "a", Number(1000))),
            "a", Nil)}

EvalInit ==
    /\ mode = "eval"
    /\ pc = "evaluate"
    /\ \E stmt \in EvalStatements : statements = <<stmt>>
    /\ pending = statements
    /\ environment \in EvalEnvironments
    /\ observed = RunStart(environment, <<>>)
    /\ prefetched = IdlePrefetched
    /\ scanner = IdleScanner
    /\ scanPhase = "idle"
    /\ parser = IdleParser
    /\ parsePhase = "idle"
    /\ lastDecl = None
    /\ HAD_ERROR = FALSE
    /\ lox_had_error = FALSE
    /\ stdout = <<>>
    /\ stderr = <<>>
    /\ linesRead = 0
    /\ exit_code = None

EvalNext == EvaluateStatement

EvalSpec == EvalInit /\ [][EvalNext]_vars /\ WF_vars(EvalNext)

(***************************************************************************)
(* The Environment on its own: define, assign, new_scope and pop_scope     *)
(* called in any order, with the names and values of EnvBindings, at       *)
(* most MaxScopes local scopes deep.  `observed` holds the last call (with *)
(* what assign returned) and, for every open scope, what get returned for  *)
(* every name when new_scope was called and whether only define has been   *)
(* called since; after pop_scope, that of the scope popped, and the scope. *)
(***************************************************************************)
MaxScopes == 2

EnvNames == {"a", "b"}

\* The name and value of a call of define or assign.
EnvBindings ==
    {<<"a", Number(1000)>>, <<"a", Number(2000)>>, <<"b", Number(1000)>>}

EnvCall(op, name, value, result, saved, popped) ==
    [op |-> op, name |-> name, value |-> value, result |-> result,
     saved |-> saved, popped |-> popped]

EnvInit ==
    /\ mode = "env"
    /\ pc = "env"
    /\ environment = Environment_new
    /\ observed = EnvCall("new", "", Nil, None, <<>>, None)
    /\ prefetched = IdlePrefetched
    /\ scanner = IdleScanner
    /\ scanPhase = "idle"
    /\ parser = IdleParser
    /\ statements = <<>>
    /\ parsePhase = "idle"
    /\ lastDecl = None
    /\ HAD_ERROR = FALSE
    /\ lox_had_error = FALSE
    /\ stdout = <<>>
    /\ stderr = <<>>
    /\ pending = <<>>
    /\ linesRead = 0
    /\ exit_code = None

EnvUnchanged ==
    UNCHANGED <<prefetched, scanVars, parseVars, mode, pc, HAD_ERROR, lox_had_error,
                stdout, stderr, pending, linesRead, exit_code>>

EnvDefine ==
    /\ mode = "env"
    /\ \E binding \in EnvBindings :
           /\ environment' = define(environment, binding[1], binding[2])
           /\ observed' = EnvCall("define", binding[1], binding[2], None,
                                  observed.saved, None)
    /\ EnvUnchanged

EnvAssign ==
    /\ mode = "env"
    /\ \E binding \in EnvBindings :
           /\ environment' =
                  assign(environment, binding[1], binding[2]).environment
           /\ observed' =
                  EnvCall("assign", binding[1], binding[2],
                          Some(assign(environment, binding[1],
                                      binding[2]).assigned),
                          [i \in 1..Len(observed.saved) |->
                               [observed.saved[i] EXCEPT
                                    !.onlyDefines = FALSE]],
                          None)
    /\ EnvUnchanged

EnvNewScope ==
    /\ mode = "env"
    /\ Len(environment.locals) < MaxScopes
    /\ environment' = new_scope(environment)
    /\ observed' =
           EnvCall("new_scope", "", Nil, None,
                   Append(observed.saved,
                          [gets |-> [name \in EnvNames |->
                                         get(environment, name)],
                           onlyDefines |-> TRUE]),
                   None)
    /\ EnvUnchanged

EnvPopScope ==
    /\ mode = "env"
    /\ environment.locals # <<>>
    /\ environment' = pop_scope(environment)
    /\ observed' =
           EnvCall("pop_scope", "", Nil, None,
                   SubSeq(observed.saved, 1, Len(observed.saved) - 1),
                   Some([at_new_scope |-> observed.saved[Len(observed.saved)],
                         scope |-> environment.locals[
                                       Len(environment.locals)]]))
    /\ EnvUnchanged

EnvNext == EnvDefine \/ EnvAssign \/ EnvNewScope \/ EnvPopScope

EnvSpec == EnvInit /\ [][EnvNext]_vars /\ WF_vars(EnvNext)

(***************************************************************************)
(* Prefetched on its own: new() over every sequence of at most MaxItems    *)
(* items with every depth L up to MaxDepth, then calls of next, peek and   *)
(* peek_nth in any order, next at most MaxExtraNext times more than there  *)
(* are items.  `observed` holds the underlying sequence, what the calls of *)
(* next have returned, and the last peek if no next has followed it.       *)
(***************************************************************************)
MaxItems == 3

MaxDepth == 3

MaxExtraNext == 2

PrefetchItems == {"x", "y"}

PrefetchInit ==
    /\ mode = "prefetch"
    /\ pc = "idle"
    /\ \E underlying \in SeqsUpTo(PrefetchItems, MaxItems), L \in 0..MaxDepth :
           /\ prefetched = Prefetched_new(underlying, L)
           /\ observed = [underlying |-> underlying, returned |-> <<>>,
                          peeked |-> None]
    /\ environment = Environment_new
    /\ scanner = IdleScanner
    /\ scanPhase = "idle"
    /\ parser = IdleParser
    /\ statements = <<>>
    /\ parsePhase = "idle"
    /\ lastDecl = None
    /\ HAD_ERROR = FALSE
    /\ lox_had_error = FALSE
    /\ stdout = <<>>
    /\ stderr = <<>>
    /\ pending = <<>>
    /\ linesRead = 0
    /\ exit_code = None

PrefetchUnchanged ==
    UNCHANGED <<scanVars, parseVars, mode, pc, HAD_ERROR, lox_had_error,
                environment, stdout, stderr, pending, linesRead, exit_code>>

PrefetchNext ==
    /\ mode = "prefetch"
    /\ Len(observed.returned) < Len(observed.underlying) + MaxExtraNext
    /\ prefetched' = Prefetched_next(prefetched).s
    /\ observed' =
           [observed EXCEPT
                !.returned = Append(@, Prefetched_next(prefetched).item),
                !.peeked = None]
    /\ PrefetchUnchanged

PrefetchPeek ==
    /\ mode = "prefetch"
    /\ observed' =
           [observed EXCEPT
                !.peeked = Some([n |-> 0, item |-> peek(prefetched)])]
    /\ UNCHANGED prefetched
    /\ PrefetchUnchanged

PrefetchPeekNth ==
    /\ mode = "prefetch"
    /\ \E n \in 0..(MaxDepth + 1) :
           observed' =
               [observed EXCEPT
                    !.peeked = Some([n |-> n,
                                     item |-> peek_nth(prefetched, n)])]
    /\ UNCHANGED prefetched
    /\ PrefetchUnchanged

PrefetchStep == PrefetchNext \/ PrefetchPeek \/ PrefetchPeekNth

PrefetchSpec ==
    PrefetchInit /\ [][PrefetchStep]_vars /\ WF_vars(PrefetchStep)

(***************************************************************************)
(* run() on the programs of ForCases: a `for` statement made of an         *)
(* initializer, a condition and an increment, each present or absent, and  *)
(* a body, after `var j = 1;` or nothing and before `print j;`.  A clause  *)
(* that is absent is the empty text.                                       *)
(***************************************************************************)
ForCases ==
    [prefix : {"", "var j = 1; "},
     init : {"", "var j = 0", "j = 0"},
     cond : {"", "j < 2"},
     incr : {"", "j = j + 1"},
     body : {"print j;", "{ print j; j = j + 1; }"}]

ForText(c) ==
    c.prefix \o "for (" \o c.init \o "; " \o c.cond \o "; " \o c.incr
        \o ") " \o c.body \o " print j;"

ForInit ==
    /\ \E c \in ForCases : scanner = Scanner_new(Chars(ForText(c)))
    /\ scanPhase = "loop"
    /\ parser = IdleParser
    /\ statements = <<>>
    /\ parsePhase = "idle"
    /\ lastDecl = None
    /\ mode = "for"
    /\ pc = "run"
    /\ ProcessStart

ForNext ==
    \/ ScanStep
    \/ ScanFinish
    \/ NewParser
    \/ ParseStep
    \/ ParseFinish
    \/ CheckHadError
    \/ EvaluateStatement

ForSpec == ForInit /\ [][ForNext]_vars /\ WF_vars(ForNext)

(***************************************************************************)
(* The loop of run() on one statement of TruthStatements, each of which    *)
(* has the variable a where is_truthy is applied, with a bound to every    *)
(* value of TruthValues.                                                   *)
(***************************************************************************)
TruthValues ==
    {False, True, Nil, Number(0), Number(1), Number(1000), Number(-1000),
     NonFinite, String(""), String(" "), String("0"), String("false")}

NotOfA == PrintStmt(Unary("Bang", Variable("a")))

IfElseOfA ==
    IfStmt(Variable("a"), PrintStmt(Literal(String("then"))),
           Some(PrintStmt(Literal(String("else")))))

IfOfA == IfStmt(Variable("a"), PrintStmt(Literal(String("then"))), None)

WhileOfA ==
    WhileStmt(Variable("a"),
              BlockStmt(<<PrintStmt(Literal(String("body"))),
                          ExpressionStmt(Assign("a", Literal(Nil)))>>))

AndOfA == PrintStmt(Logical(Variable("a"), "And", Literal(String("right"))))

OrOfA == PrintStmt(Logical(Variable("a"), "Or", Literal(String("right"))))

TruthStatements == {NotOfA, IfElseOfA, IfOfA, WhileOfA, AndOfA, OrOfA}

TruthInit ==
    /\ mode = "truth"
    /\ pc = "evaluate"
    /\ \E stmt \in TruthStatements : statements = <<stmt>>
    /\ pending = statements
    /\ \E v \in TruthValues : environment = define(Environment_new, "a", v)
    /\ observed = RunStart(environment, <<>>)
    /\ prefetched = IdlePrefetched
    /\ scanner = IdleScanner
    /\ scanPhase = "idle"
    /\ parser = IdleParser
    /\ parsePhase = "idle"
    /\ lastDecl = None
    /\ HAD_ERROR = FALSE
    /\ lox_had_error = FALSE
    /\ stdout = <<>>
    /\ stderr = <<>>
    /\ linesRead = 0
    /\ exit_code = None

TruthNext == EvaluateStatement

TruthSpec == TruthInit /\ [][TruthNext]_vars /\ WF_vars(TruthNext)

(***************************************************************************)
(* Parser::call and Parser::complete_call, one iteration of their loops at *)
(* a time, on the calls of CallCases: `a` or `a()` called with the         *)
(* arguments 1, 2, ... n, n around the limit of complete_call.  `observed` *)
(* holds the position in call(): "primary", "loop" (the head of the loop   *)
(* of call), "arguments" (the head of the loop of complete_call), "close"  *)
(* (its consume), "returned" (call has returned Ok(expression)) or         *)
(* "failed" (a ParseError has been returned through `?`), with the         *)
(* expression and the arguments built so far.                              *)
(***************************************************************************)
CallCases ==
    [n : {0, 1, 2, 3, MaxArguments - 1, MaxArguments, MaxArguments + 1,
          MaxArguments + 2},
     calls : {1, 2}]

\* The tokens of the arguments 1, 2, ... n and the commas between them.
ArgumentTokens(n) ==
    [i \in 1..(IF n = 0 THEN 0 ELSE 2 * n - 1) |->
         IF i % 2 = 1
         THEN Token("Number", ((i + 1) \div 2) * 1000,
                    ToString((i + 1) \div 2), 1)
         ELSE Token("Comma", NoLiteral, ",", 1)]

\* `a(1, 2, ... n);` or `a()(1, 2, ... n);`.
CallTokens(c) ==
    <<Token("Identifier", "a", "a", 1)>>
        \o (IF c.calls = 2
            THEN <<Token("LeftParen", NoLiteral, "(", 1),
                   Token("RightParen", NoLiteral, ")", 1)>>
            ELSE <<>>)
        \o <<Token("LeftParen", NoLiteral, "(", 1)>>
        \o ArgumentTokens(c.n)
        \o <<Token("RightParen", NoLiteral, ")", 1),
             Token("Semicolon", NoLiteral, ";", 1), EOFToken>>

CallFrame(c, phase, expr, callee, arguments) ==
    [case |-> c, phase |-> phase, expression |-> expr, callee |-> callee,
     arguments |-> arguments]

CallInit ==
    /\ mode = "call"
    /\ pc = "idle"
    /\ \E c \in CallCases :
           /\ parser = Parser_new(CallTokens(c))
           /\ observed = CallFrame(c, "primary", None, None, <<>>)
    /\ parsePhase = "loop"
    /\ statements = <<>>
    /\ lastDecl = None
    /\ scanner = IdleScanner
    /\ scanPhase = "idle"
    /\ HAD_ERROR = FALSE
    /\ lox_had_error = FALSE
    /\ environment = Environment_new
    /\ stdout = <<>>
    /\ stderr = <<>>
    /\ pending = <<>>
    /\ linesRead = 0
    /\ exit_code = None
    /\ prefetched = IdlePrefetched

CallUnchanged ==
    UNCHANGED <<prefetched, scanVars, statements, parsePhase, lastDecl, mode,
                pc, lox_had_error, environment, stdout, pending, linesRead,
                exit_code>>

\* call(): `let mut expression = self.primary()?`.
CallPrimary ==
    /\ mode = "call"
    /\ observed.phase = "primary"
    /\ \E r \in {primary(parser)} :
           /\ parser' = r.p
           /\ observed' = [observed EXCEPT
                               !.phase = IF r.ok THEN "loop" ELSE "failed",
                               !.expression = r.val]
           /\ report(NewReports(parser.errors, r.p.errors))
    /\ CallUnchanged

\* call(): the head of its loop, up to the head of the loop of
\* complete_call.
CallLoopStep ==
    /\ mode = "call"
    /\ observed.phase = "loop"
    /\ \E m \in {match_token(parser, "LeftParen")} :
           /\ parser' = m.p
           /\ observed' =
                  IF ~m.matched THEN [observed EXCEPT !.phase = "returned"]
                  ELSE [observed EXCEPT
                            !.callee = observed.expression,
                            !.arguments = <<>>,
                            !.phase =
                                IF Parser_current(m.p).token_type
                                       # "RightParen"
                                THEN "arguments" ELSE "close"]
    /\ UNCHANGED <<HAD_ERROR, stderr>>
    /\ CallUnchanged

\* complete_call(): one iteration of its loop.
CallArgument ==
    /\ mode = "call"
    /\ observed.phase = "arguments"
    /\ \E r \in {ArgumentsPush(parser, observed.arguments)} :
           /\ parser' = IF r.ok THEN match_token(r.p, "Comma").p ELSE r.p
           /\ observed' =
                  IF ~r.ok THEN [observed EXCEPT !.phase = "failed"]
                  ELSE [observed EXCEPT
                            !.arguments = r.val,
                            !.phase =
                                IF match_token(r.p, "Comma").matched
                                THEN "arguments" ELSE "close"]
           /\ report(NewReports(parser.errors, r.p.errors))
    /\ CallUnchanged

\* complete_call(): the consume of `)` and the Call returned.
CallClose ==
    /\ mode = "call"
    /\ observed.phase = "close"
    /\ \E c \in {consume(parser, "RightParen",
                         "Expect ')' after arguments")} :
           /\ parser' = c.p
           /\ observed' =
                  IF ~c.ok THEN [observed EXCEPT !.phase = "failed"]
                  ELSE [observed EXCEPT
                            !.expression =
                                Call(observed.callee, observed.arguments),
                            !.phase = "loop"]
           /\ report(NewReports(parser.errors, c.p.errors))
    /\ CallUnchanged

CallNext == CallPrimary \/ CallLoopStep \/ CallArgument \/ CallClose

CallSpec == CallInit /\ [][CallNext]_vars /\ WF_vars(CallNext)

(***************************************************************************)
(* The loop of run() on one statement of CallStatements: a call of         *)
(* CallExprs at every place of a statement or of an expression where it is *)
(* evaluated, where a is bound to 1.                                       *)
(***************************************************************************)
CallExprs ==
    {Call(callee, arguments) :
         callee \in {Variable("a"), Variable("u"), Literal(Nil),
                     Call(Variable("a"), <<>>)},
         arguments \in {<<>>, <<Literal(Number(1000))>>,
                        <<Assign("a", Literal(Number(2000))),
                          Variable("u")>>}}

CallPlaces(c) ==
    {PrintStmt(c), ExpressionStmt(c), VarStmt("b", Some(c)),
     BlockStmt(<<PrintStmt(c)>>),
     IfStmt(c, PrintStmt(Literal(String("then"))), None),
     WhileStmt(c, PrintStmt(Literal(String("body")))),
     PrintStmt(Grouping(c)),
     PrintStmt(Unary("Bang", c)),
     PrintStmt(Binary(c, "EqualEqual", Literal(Nil))),
     PrintStmt(Binary(Literal(Number(1000)), "Add", c)),
     PrintStmt(Assign("a", c)),
     PrintStmt(Logical(Literal(True), "And", c))}

CallStatements == UNION {CallPlaces(c) : c \in CallExprs}

CallEvalInit ==
    /\ mode = "calleval"
    /\ pc = "evaluate"
    /\ \E stmt \in CallStatements : statements = <<stmt>>
    /\ pending = statements
    /\ environment = define(Environment_new, "a", Number(1000))
    /\ observed = RunStart(environment, <<>>)
    /\ prefetched = IdlePrefetched
    /\ scanner = IdleScanner
    /\ scanPhase = "idle"
    /\ parser = IdleParser
    /\ parsePhase = "idle"
    /\ lastDecl = None
    /\ HAD_ERROR = FALSE
    /\ lox_had_error = FALSE
    /\ stdout = <<>>
    /\ stderr = <<>>
    /\ linesRead = 0
    /\ exit_code = None

CallEvalNext == EvaluateStatement

CallEvalSpec == CallEvalInit /\ [][CallEvalNext]_vars /\ WF_vars(CallEvalNext)

(***************************************************************************)
(* The loop of run() on one statement `print l op r;` for every binary     *)
(* operator and all operands of BinaryLefts and BinaryRights: literals of  *)
(* every kind of value, assignments to a, a itself and the unbound u,      *)
(* where a is bound to 0.                                                  *)
(***************************************************************************)
BinaryOperators ==
    {"EqualEqual", "BangEqual", "LessThan", "LessEqualThan", "GreaterThan",
     "GreaterEqualThan", "Add", "Sub", "Mul", "Div"}

BinaryLiterals ==
    {Literal(Number(2000)), Literal(Number(3000)), Literal(String("x")),
     Literal(String("")), Literal(True), Literal(False), Literal(Nil)}

BinaryLefts ==
    BinaryLiterals \cup {Variable("a"), Variable("u"),
                         Assign("a", Literal(Number(1000))),
                         Assign("a", Literal(String("s")))}

BinaryRights ==
    BinaryLiterals \cup {Variable("a"), Variable("u"),
                         Assign("a", Literal(Number(2000))),
                         Assign("a", Literal(Nil))}

BinaryStatements ==
    {PrintStmt(Binary(l, op, r)) :
         l \in BinaryLefts, op \in BinaryOperators, r \in BinaryRights}

BinaryInit ==
    /\ mode = "binary"
    /\ pc = "evaluate"
    /\ \E stmt \in BinaryStatements : statements = <<stmt>>
    /\ pending = statements
    /\ environment = define(Environment_new, "a", Number(0))
    /\ observed = RunStart(environment, <<>>)
    /\ prefetched = IdlePrefetched
    /\ scanner = IdleScanner
    /\ scanPhase = "idle"
    /\ parser = IdleParser
    /\ parsePhase = "idle"
    /\ lastDecl = None
    /\ HAD_ERROR = FALSE
    /\ lox_had_error = FALSE
    /\ stdout = <<>>
    /\ stderr = <<>>
    /\ linesRead = 0
    /\ exit_code = None

BinaryNext == EvaluateStatement

BinarySpec == BinaryInit /\ [][BinaryNext]_vars /\ WF_vars(BinaryNext)

(***************************************************************************)
(* run() on the programs `a o1 b o2 c;` for all operators o1 and o2 of     *)
(* LadderOperators, the infix operators of the expression grammar.         *)
(***************************************************************************)
LadderOperators ==
    {"=", "or", "and", "==", "!=", "<", "<=", ">", ">=", "+", "-", "*", "/"}

LadderCases == [o1 : LadderOperators, o2 : LadderOperators]

LadderText(c) == "a " \o c.o1 \o " b " \o c.o2 \o " c;"

LadderInit ==
    /\ \E c \in LadderCases : scanner = Scanner_new(Chars(LadderText(c)))
    /\ scanPhase = "loop"
    /\ parser = IdleParser
    /\ statements = <<>>
    /\ parsePhase = "idle"
    /\ lastDecl = None
    /\ mode = "ladder"
    /\ pc = "run"
    /\ ProcessStart

LadderNext ==
    \/ ScanStep
    \/ ScanFinish
    \/ NewParser
    \/ ParseStep
    \/ ParseFinish
    \/ CheckHadError
    \/ EvaluateStatement

LadderSpec == LadderInit /\ [][LadderNext]_vars /\ WF_vars(LadderNext)

(***************************************************************************)
(* The properties checked of the model.                                   *)
(***************************************************************************)
\* Whether the text `sub` occurs in the text `s`.
Contains(s, sub) ==
    \E i \in 1..(Len(s) - Len(sub) + 1) : SubSeq(s, i, i + Len(sub) - 1) = sub

\* Whether a line written to standard error holds `message`.
Diagnosed(message) == \E i \in 1..Len(stderr) : Contains(stderr[i], message)

\* Whether the scan or the parse of the text being run has made a report.
ScanParseDiagnostics == scanner.errors # <<>> \/ parser.errors # <<>>

\* C1: between top-level statements, and between the lines of the prompt,
\* the locals stack is empty: a Block that has returned, Ok or with an
\* EvaluateError of a statement of its body, has left as many scopes as it
\* found, so a top-level `var` goes to globals.
C1_LocalsEmptyBetweenStatements == environment.locals = <<>>

\* C2: once the evaluation of a statement of a parsed list has returned an
\* EvaluateError, no later statement of that list is evaluated.
C2_FirstErrorAbortsPass == observed.afterError = 0

C3Program == Chars("print \"x\";\nprint 1 + true;")

C3Finished ==
    mode = "file" /\ scanner.source = C3Program /\ pc \in {"returned", "exited"}

\* C3 as stated: the run of `print "x";` and, on the next line,
\* `print 1 + true;` writes `x` and a newline and then reports a diagnostic
\* that holds `boolean cannot be an operand to addition`.
C3_BooleanOperandMessage ==
    C3Finished =>
        /\ stdout = <<"x\n">>
        /\ Diagnosed("boolean cannot be an operand to addition")

\* C3, amended: that run writes `x` and a newline and then reports one
\* diagnostic, which holds `number value cannot be added with non-number
\* operand` and not the boolean-operand message; nothing is reported before
\* `x` is written.
C3_NumberLeftMessage ==
    (mode = "file" /\ scanner.source = C3Program) =>
        /\ stderr # <<>> => stdout = <<"x\n">>
        /\ C3Finished =>
               /\ stdout = <<"x\n">>
               /\ Len(stderr) = 1
               /\ Diagnosed("number value cannot be added with non-number operand")
               /\ ~Diagnosed("boolean cannot be an operand to addition")

\* The run of the program of C3 has returned, with its diagnostic made.
C3_Ran ==
    /\ mode = "file"
    /\ scanner.source = C3Program
    /\ pc = "returned"
    /\ stderr # <<>>

AfterParse == pc = "evaluate" \/ (mode = "file" /\ pc \in {"returned", "exited"})

\* C5: if the scan or the parse of a text has emitted a diagnostic, no
\* statement of that text is evaluated: nothing is written to standard
\* output and the environment is as it was when the run started.
C5_NoEvaluationAfterDiagnostic ==
    (AfterParse /\ ScanParseDiagnostics) =>
        /\ pending = <<>>
        /\ observed.evaluated = 0
        /\ stdout = observed.stdout
        /\ environment = observed.environment

\* A text with a diagnostic and with statements that parsed has been run.
C5_ParsedButNotRun ==
    /\ pc = "evaluate"
    /\ ScanParseDiagnostics
    /\ statements # <<>>

\* run() has just been entered for a line.
LineStart ==
    pc = "run" /\ scanPhase = "loop" /\ scanner = Scanner_new(scanner.source)

\* C6: at the prompt HAD_ERROR is false when the run of every line starts,
\* and every statement of a line that scans and parses without a diagnostic
\* is handed to evaluation, whatever the lines before it reported.
C6_FlagClearAtLineStart ==
    mode = "repl" =>
        /\ LineStart => ~HAD_ERROR
        /\ (pc = "evaluate" /\ ~ScanParseDiagnostics) =>
               observed.evaluated + Len(pending) = Len(statements)

\* A second line without a diagnostic of its own has been evaluated after a
\* first line that made one.
C6_LaterLineEvaluated ==
    /\ mode = "repl"
    /\ linesRead = 2
    /\ pc = "evaluate"
    /\ ~ScanParseDiagnostics
    /\ pending = <<>>
    /\ observed.evaluated > 0
    /\ observed.runtimeErrors = 0
    /\ stderr # <<>>

\* Whether declarations are parsed again from index j: at EOF, just past a
\* `;`, or at one of the keywords.
ResumePoint(tokens, j) ==
    \/ tokens[j + 1].token_type = "EOF"
    \/ j >= 1 /\ tokens[j].token_type = "Semicolon"
    \/ tokens[j + 1].token_type \in SyncKeywords

\* The index past the token of the error (the EOF token is not passed).
PastError(tokens, e) == IF tokens[e + 1].token_type = "EOF" THEN e ELSE e + 1

\* The first resume point after an error at index e.
ClaimedResume(tokens, e) ==
    CHOOSE j \in PastError(tokens, e)..(Len(tokens) - 1) :
        /\ ResumePoint(tokens, j)
        /\ \A k \in PastError(tokens, e)..(j - 1) : ~ResumePoint(tokens, k)

\* C7: after a ParseError in declaration, nested in blocks or not, the
\* parser has skipped tokens only up to the first resume point after the
\* token of the error, and parses declarations again from there.
C7_ResumesAtFirstResumePoint ==
    (lastDecl # None /\ ~lastDecl.ok) =>
        parser.current = ClaimedResume(parser.tokens, lastDecl.errorAt)

\* C8: during parse() `current` is at most the index of the EOF token, no
\* token is read past the vector and previous() is not called at current = 0.
C8_TokenAccessInBounds ==
    /\ ~parser.pastEnd
    /\ ~parser.prevAtZero
    /\ parser.current <= Len(parser.tokens) - 1

\* synchronize has run after an error at the EOF token.
C8_SynchronizedAtEOF ==
    /\ lastDecl # None
    /\ ~lastDecl.ok
    /\ lastDecl.errorAt = Len(parser.tokens) - 1
    /\ Len(parser.tokens) > 1
    /\ parser.current = Len(parser.tokens) - 1

\* The parser when the loop of parse() that is under way has returned.
ParseEnd == ParseLoop(parser, statements).p

\* C9: parse() terminates for every token vector that ends in EOF: every
\* iteration of its loop and of the loop of block() has consumed a token,
\* `current` is bounded by the index of the EOF token, and the loop runs to
\* its return with the parser on the EOF token.
C9_ParseTerminates ==
    /\ lastDecl # None => parser.current > lastDecl.start
    /\ ~parser.stalled
    /\ parsePhase # "panicked"
    /\ parsePhase \in {"loop", "done"} =>
           parser.current <= Len(parser.tokens) - 1
    /\ parsePhase = "done" => parser.current = Len(parser.tokens) - 1
    /\ parsePhase = "loop" =>
           /\ ParseEnd.current = Len(parser.tokens) - 1
           /\ ~ParseEnd.stalled
           /\ ~Panicked(ParseEnd)

\* parse() has returned a block with a body, parsed by the loop of block().
C9_BlockParsed ==
    /\ parsePhase = "done"
    /\ \E i \in 1..Len(statements) :
           statements[i].kind = "Block" /\ statements[i].statements # <<>>

\* The vector scan_tokens returns holds one EOF token, the last one, whose
\* line is the line counter; before it returns, `current` is within the text
\* and no EOF token has been pushed.
C10_OneEOF ==
    /\ scanPhase = "loop" =>
           /\ scanner.current <= Len(scanner.source)
           /\ \A i \in 1..Len(scanner.tokens) :
                  scanner.tokens[i].token_type # "EOF"
    /\ scanPhase = "done" =>
        /\ scanner.tokens # <<>>
        /\ scanner.tokens[Len(scanner.tokens)].token_type = "EOF"
        /\ scanner.tokens[Len(scanner.tokens)].line = scanner.line
        /\ Cardinality({i \in 1..Len(scanner.tokens) :
                            scanner.tokens[i].token_type = "EOF"}) = 1

\* C10: scan_tokens terminates for every source text (every iteration of
\* its loop moves `current` forward, within the text, and the loop ends when
\* the text has been read), and the vector it returns holds exactly one EOF
\* token, the last one, whose line is the final value of the line counter.
C10_ScanTerminates ==
    /\ []C10_OneEOF
    /\ [][scanPhase = "loop" =>
               \/ scanPhase' = "loop" /\ scanner'.current > scanner.current
               \/ scanPhase' = "done" /\ Scanner_is_at_end(scanner)]_vars

\* scan_tokens has returned for a text of several lines with an unexpected
\* character or an unterminated string.
C10_ScannedWithErrors ==
    /\ scanPhase = "done"
    /\ scanner.errors # <<>>
    /\ scanner.line > 1

\* Whether the Logical operator `op` stops at a left operand of value `val`.
StopsAtLeft(op, val) ==
    \/ op = "And" /\ val \in {False, Nil, Number(0), String("")}
    \/ op = "Or" /\ val \notin {False, Nil, Number(0), String("")}

\* What `print l op r;` has done when the right operand is left alone: the
\* value of l printed, nothing reported, the environment as l has left it.
OnlyLeftEvaluated(left) ==
    /\ stdout = println(<<>>, left.val)
    /\ stderr = <<>>
    /\ environment = left.environment

\* What `print l op r;` has done when the right operand decides: its own
\* value printed, or its error reported.
RightDecides(right) ==
    IF right.ok
    THEN /\ stdout = println(<<>>, right.val)
         /\ stderr = <<>>
         /\ environment = right.environment
    ELSE /\ stdout = <<>>
         /\ Len(stderr) = 1
         /\ Diagnosed(right.val)

\* The left operand of the statement `print l op r;` that has been run,
\* evaluated in the environment the run started in.
LeftOfRun == Expr_evaluate(statements[1].expr.left, observed.environment)

\* C11: Logical(l, And, r) with l falsy, and Logical(l, Or, r) with l
\* truthy, yield the value of l and leave r alone: no error of r is raised
\* and no assignment of r takes effect; otherwise the value is r's own.
C11_ShortCircuit ==
    (mode = "eval" /\ pending = <<>> /\ LeftOfRun.ok) =>
        IF StopsAtLeft(statements[1].expr.op, LeftOfRun.val)
        THEN OnlyLeftEvaluated(LeftOfRun)
        ELSE RightDecides(Expr_evaluate(statements[1].expr.right,
                                        LeftOfRun.environment))

\* `print false and (a = 2);` has been run where a is 1: the assignment has
\* not taken place.
C11_AssignmentSkipped ==
    /\ mode = "eval"
    /\ pending = <<>>
    /\ statements[1].expr.op = "And"
    /\ statements[1].expr.left = Literal(False)
    /\ statements[1].expr.right = Assign("a", Literal(Number(2000)))
    /\ get(environment, "a") = Some(Number(1000))
    /\ stdout = <<"false\n">>

\* C12: define(name, v) followed by get(name) yields v, also when the name
\* was bound in the same scope, in an outer scope or in the globals; the
\* scopes outside the current one are left as they were.
C12_DefineThenGet ==
    [][observed'.op = "define" =>
           /\ get(environment', observed'.name) = Some(observed'.value)
           /\ Len(environment'.locals) = Len(environment.locals)
           /\ environment.locals # <<>> =>
                  /\ environment'.globals = environment.globals
                  /\ \A i \in 1..(Len(environment.locals) - 1) :
                         environment'.locals[i] = environment.locals[i]]_vars

\* define has given a name another value in a local scope than the one it
\* keeps in the globals.
C12_Shadowed ==
    /\ mode = "env"
    /\ observed.op = "define"
    /\ environment.locals # <<>>
    /\ Lookup(environment.globals, observed.name) \notin
           {None, Some(observed.value)}
    /\ get(environment, observed.name) = Some(observed.value)

ShadowProgram == Chars("var a = 1; { var a = 2; print a; } print a;")

ShadowRun == Run(ShadowProgram, Environment_new)

\* C13: after new_scope, calls of define and the matching pop_scope, get
\* yields for every name what it yielded before new_scope; the program
\* `var a = 1; { var a = 2; print a; } print a;` prints 2 then 1.
C13_PopRestores ==
    /\ (mode = "env" /\ observed.op = "pop_scope"
            /\ observed.popped.some.at_new_scope.onlyDefines) =>
           \A name \in EnvNames :
               get(environment, name) =
                   observed.popped.some.at_new_scope.gets[name]
    /\ ShadowRun.stdout = <<"2\n", "1\n">>
    /\ ShadowRun.errors = <<>>

\* A scope has been popped in which only define was called, one name
\* shadowing an outer one and one name bound nowhere else.
C13_PoppedShadow ==
    /\ mode = "env"
    /\ observed.op = "pop_scope"
    /\ observed.popped.some.at_new_scope.onlyDefines
    /\ Lookup(observed.popped.some.scope, "a") = Some(Number(2000))
    /\ Lookup(observed.popped.some.scope, "b") # None
    /\ get(environment, "a") = Some(Number(1000))
    /\ get(environment, "b") = None

\* The scope that holds the innermost binding of a name: the index of a
\* local scope, 0 for the globals, -1 if the name is bound nowhere.
InnermostBinding(env, name) ==
    IF \E i \in 1..Len(env.locals) : Lookup(env.locals[i], name) # None
    THEN CHOOSE i \in 1..Len(env.locals) :
             /\ Lookup(env.locals[i], name) # None
             /\ \A j \in (i + 1)..Len(env.locals) :
                    Lookup(env.locals[j], name) = None
    ELSE IF Lookup(env.globals, name) # None THEN 0
    ELSE -1

\* The scope of index i (0 for the globals).
ScopeAt(env, i) == IF i = 0 THEN env.globals ELSE env.locals[i]

\* Whether `after` is `before` with the value of the binding of `name` in
\* scope `i` replaced by `value`, and nothing else changed.
OnlyBindingReplaced(before, after, i, name, value) ==
    /\ Len(after.locals) = Len(before.locals)
    /\ \A j \in 0..Len(before.locals) :
           ScopeAt(after, j) =
               IF j = i
               THEN {e \in ScopeAt(before, j) : e[1] # name}
                        \cup {<<name, value>>}
               ELSE ScopeAt(before, j)

WhileProgram == Chars("var i = 0; while (i < 3) { print i; i = i + 1; }")

WhileRun == Run(WhileProgram, Environment_new)

UndefinedAssignRun == Run(Chars("var a = 1; u = 2;"), Environment_new)

\* What C14 says of the programs: the loop prints 0, 1, 2 and ends with its
\* condition false, the assignment in its block having updated the outer i;
\* an assignment to a name bound nowhere fails with `Undefined variable.`
\* and binds nothing.
C14_Programs ==
    /\ WhileRun.stdout = <<"0\n", "1\n", "2\n">>
    /\ WhileRun.errors = <<>>
    /\ WhileRun.environment =
           define(Environment_new, "i", Number(3000))
    /\ UndefinedAssignRun.errors = <<"Undefined variable.">>
    /\ UndefinedAssignRun.environment =
           define(Environment_new, "a", Number(1000))

\* C14: assign(name, v) replaces the value of the innermost binding of the
\* name, changes nothing else and returns true; for a name bound nowhere it
\* returns false and leaves the environment as it was, and the Assign
\* expression fails with `Undefined variable.`; so the loop
\* `var i = 0; while (i < 3) { print i; i = i + 1; }` prints 0, 1, 2 and ends.
C14_AssignInnermost ==
    /\ []C14_Programs
    /\ [][observed'.op = "assign" =>
              IF InnermostBinding(environment, observed'.name) >= 0
              THEN /\ observed'.result = Some(TRUE)
                   /\ OnlyBindingReplaced(
                          environment, environment',
                          InnermostBinding(environment, observed'.name),
                          observed'.name, observed'.value)
              ELSE /\ observed'.result = Some(FALSE)
                   /\ environment' = environment]_vars

\* assign has changed a binding of a local scope that shadows one of the
\* globals and has another local scope above it.
C14_AssignedBelowTop ==
    /\ mode = "env"
    /\ observed.op = "assign"
    /\ observed.result = Some(TRUE)
    /\ Len(environment.locals) = 2
    /\ InnermostBinding(environment, observed.name) = 1
    /\ Lookup(environment.locals[1], observed.name) = Some(observed.value)
    /\ Lookup(environment.globals, observed.name) \notin
           {None, Some(observed.value)}

\* What the i-th call of next() on the underlying sequence itself returns.
UnderlyingNth(i) ==
    IF i <= Len(observed.underlying) THEN Some(observed.underlying[i])
    ELSE None

\* C15: for every underlying sequence and every depth L, L = 0 and L above
\* the length of the sequence included, the successive calls of next()
\* return the items of the sequence, in order and each once, then absence.
C15_NextYieldsUnderlying ==
    mode = "prefetch" =>
        \A i \in 1..Len(observed.returned) :
            observed.returned[i] = UnderlyingNth(i)

\* A Prefetched deeper than its sequence is long has returned every item and
\* then absence.
C15_Overallocated ==
    /\ mode = "prefetch"
    /\ prefetched.L > Len(observed.underlying)
    /\ Len(observed.underlying) >= 2
    /\ Len(observed.returned) = Len(observed.underlying) + 1
    /\ observed.returned[1] = Some("x")
    /\ observed.returned[2] = Some("y")
    /\ observed.returned[Len(observed.returned)] = None

\* C16: after any calls of next(), peek_nth(k) with k < L is what the
\* (k+1)-th following call of next() will return, absence if fewer than
\* k+1 items remain; peek_nth(k) with k >= L is absence; peek() is
\* peek_nth(0).
C16_PeekNthLooksAhead ==
    mode = "prefetch" =>
        /\ peek(prefetched) = peek_nth(prefetched, 0)
        /\ observed.peeked # None =>
               observed.peeked.some.item =
                   IF observed.peeked.some.n < prefetched.L
                   THEN UnderlyingNth(Len(observed.returned)
                                          + observed.peeked.some.n + 1)
                   ELSE None

\* After a call of next(), peek_nth(1) has yielded the item after the next.
C16_PeekedSecond ==
    /\ mode = "prefetch"
    /\ Len(observed.returned) = 1
    /\ observed.peeked # None
    /\ observed.peeked.some.n = 1
    /\ observed.peeked.some.item = Some("y")
    /\ observed.underlying = <<"x", "x", "y">>

\* The case of ForCases whose program is being run.
ForCase == CHOOSE c \in ForCases : Chars(ForText(c)) = scanner.source

\* The statement and the expression a text is parsed into on its own.
StatementOf(text) == parse(scan_tokens(Chars(text)).tokens).statements[1]

ExprOf(text) == StatementOf(text \o ";").expr

\* The statement parsed from the `for` of the program being run.
ForParsed == statements[IF ForCase.prefix = "" THEN 1 ELSE 2]

\* While(cond, or Literal(True) when cond is absent, body).
ForWhile(c, body) ==
    WhileStmt(IF c.cond = "" THEN Literal(True) ELSE ExprOf(c.cond), body)

\* Block[init (if present), While(cond, Block[body, Expression(incr) (if
\* present)])]: both Blocks whatever clauses are present.
ForShapeBlocks(c) ==
    BlockStmt((IF c.init = "" THEN <<>>
               ELSE <<StatementOf(c.init \o ";")>>)
              \o <<ForWhile(c, BlockStmt(
                                   <<StatementOf(c.body)>>
                                   \o (IF c.incr = "" THEN <<>>
                                       ELSE <<ExpressionStmt(
                                                  ExprOf(c.incr))>>)))>>)

\* The same with the inner Block only around a body followed by an
\* increment and the outer Block only around an initializer followed by the
\* loop.
ForShape(c) ==
    LET body == IF c.incr = "" THEN StatementOf(c.body)
                ELSE BlockStmt(<<StatementOf(c.body),
                                 ExpressionStmt(ExprOf(c.incr))>>)
    IN  IF c.init = "" THEN ForWhile(c, body)
        ELSE BlockStmt(<<StatementOf(c.init \o ";"), ForWhile(c, body)>>)

\* The program of a case with its `for` written as the block and the while
\* loop of ForShape.
WhileText(c) ==
    c.prefix
        \o (IF c.init = "" THEN "" ELSE "{ " \o c.init \o "; ")
        \o "while (" \o (IF c.cond = "" THEN "true" ELSE c.cond) \o ") "
        \o (IF c.incr = "" THEN c.body
            ELSE "{ " \o c.body \o " " \o c.incr \o "; }")
        \o (IF c.init = "" THEN "" ELSE " }")
        \o " print j;"

ForProgram == Chars("for (var j = 0; j < 2; j = j + 1) print j;")

ForRun == Run(ForProgram, Environment_new)

ForThenPrintRun == Run(ForProgram \o Chars(" print j;"), Environment_new)

ForShadowRun ==
    Run(Chars("var j = 5; ") \o ForProgram \o Chars(" print j;"),
        Environment_new)

\* Once parse() has returned on a program of ForCases.
ForParseDone == mode = "for" /\ parsePhase = "done"

\* Once the loop of run() has ended on a program of ForCases.
ForRunDone == mode = "for" /\ pc = "evaluate" /\ pending = <<>>

\* C17 as stated: `for (init; cond; incr) body` is parsed into Block[init (if
\* present), While(cond or Literal(True), Block[body, Expression(incr)])],
\* with the outer Block whether or not there is an initializer.
C17_AlwaysBlocks == ForParseDone => ForParsed = ForShapeBlocks(ForCase)

\* C17: `for (init; cond; incr) body` is parsed into While(cond or
\* Literal(True), body'), where body' is Block[body, Expression(incr)] if
\* there is an increment and body itself if not, inside Block[init, ...] if
\* there is an initializer and on its own if not; the program runs as the
\* one with the block and the while loop written out; in
\* `for (var j = 0; j < 2; j = j + 1) print j;` the initializer runs once,
\* the increment after each run of the body, 0 then 1 are printed, and j is
\* not bound after the loop.
C17_ForDesugared ==
    /\ ForParseDone =>
           /\ parser.errors = <<>>
           /\ ForParsed = ForShape(ForCase)
    /\ ForRunDone =>
           /\ stdout = Run(Chars(WhileText(ForCase)), Environment_new).stdout
           /\ environment =
                  Run(Chars(WhileText(ForCase)), Environment_new).environment
    /\ ForRun.stdout = <<"0\n", "1\n">>
    /\ ForRun.errors = <<>>
    /\ ForRun.environment = Environment_new
    /\ ForThenPrintRun.stdout = <<"0\n", "1\n">>
    /\ ForThenPrintRun.errors = <<"Undefined variable">>
    /\ ForShadowRun.stdout = <<"0\n", "1\n", "5\n">>

\* A `for` with neither initializer nor increment has been parsed into the
\* While alone and run: the loop printed 1 and left the global j at 2.
C17_BareWhileRan ==
    /\ ForRunDone
    /\ ForCase.init = ""
    /\ ForCase.incr = ""
    /\ ForCase.cond = "j < 2"
    /\ ForCase.prefix # ""
    /\ ForParsed.kind = "While"
    /\ ForParsed.body.kind = "Block"
    /\ stdout = <<"1\n", "2\n">>

\* The left side of the assignment that parse() is about to parse, and the
\* right side after its `=`.
TargetOf(p) == Parser_or(p)

ValueOf(p) == assignment(match_token(TargetOf(p).p, "Equal").p)

\* parse() is about to parse `target = value` where target is an expression
\* other than a Variable and value an expression.
InvalidTargetNext ==
    /\ mode = "parse"
    /\ parsePhase = "loop"
    /\ ~Parser_is_at_end(parser)
    /\ TargetOf(parser).ok
    /\ TargetOf(parser).val.kind # "Variable"
    /\ match_token(TargetOf(parser).p, "Equal").matched
    /\ ValueOf(parser).ok

\* What the report of an invalid target is: at the token after the value.
InvalidTargetReport(p) ==
    error_from_token(Parser_current(ValueOf(p).p),
                     "Invalid assignment target.")

\* C18: when the left side of `=` is an expression other than a Variable and
\* the right side an expression, `Invalid assignment target.` is reported,
\* assignment() returns Ok with the left side, having consumed the right
\* side and no more; no ParseError is returned, so that when `;` follows,
\* the expression statement of the left side is added to the statements and
\* the parser goes on right after the `;`, without synchronization.
C18_InvalidTargetReported ==
    [][InvalidTargetNext =>
           /\ assignment(parser) =
                  Ok(TargetOf(parser).val,
                     Parser_error(ValueOf(parser).p,
                                  "Invalid assignment target."))
           /\ Len(parser'.errors) > Len(ValueOf(parser).p.errors)
           /\ parser'.errors[Len(ValueOf(parser).p.errors) + 1] =
                  InvalidTargetReport(parser)
           /\ Parser_current(ValueOf(parser).p).token_type = "Semicolon" =>
                  /\ lastDecl'.ok
                  /\ lastDecl'.reports =
                         Len(ValueOf(parser).p.errors) - Len(parser.errors) + 1
                  /\ statements' =
                         Append(statements,
                                ExpressionStmt(TargetOf(parser).val))
                  /\ parser'.current = ValueOf(parser).p.current + 1]_vars

\* `1 = a ;` has been parsed: one report, of the invalid target at the `;`,
\* and the expression statement of the literal.
C18_LiteralTargetParsed ==
    /\ mode = "parse"
    /\ parsePhase = "done"
    /\ Len(parser.tokens) = 5
    /\ parser.tokens[2].token_type = "Equal"
    /\ parser.tokens[3].token_type = "Identifier"
    /\ statements = <<ExpressionStmt(Literal(Number(1000)))>>
    /\ parser.errors = <<Report(1, "';'", "Invalid assignment target.")>>
    /\ parser.current = 4

\* The number of line ends from `current` to the end of the text.
NewlinesAfter(s) ==
    Cardinality({i \in (s.current + 1)..Len(s.source) : s.source[i] = "\n"})

\* scan_tokens is about to scan a `"` that no `"` follows.
UnterminatedNext ==
    /\ mode = "scan"
    /\ scanPhase = "loop"
    /\ ~Scanner_is_at_end(scanner)
    /\ Scanner_peek(scanner) = "\""
    /\ \A i \in (scanner.current + 2)..Len(scanner.source) :
           scanner.source[i] # "\""

UnterminatedReport ==
    LoxError(scanner.line + NewlinesAfter(scanner), "Unterminated string.")

HelloScan == scan_tokens(Chars("\"hello"))

\* C19: a string literal that the text ends before closing is reported
\* once, with `Unterminated string.` and the line the text ends on, and no
\* token is pushed for it: scan_tokens returns the tokens pushed before it
\* and the EOF token; for `"hello` the report is on line 1.
C19_UnterminatedString ==
    /\ [](/\ HelloScan.errors = <<LoxError(1, "Unterminated string.")>>
          /\ HelloScan.tokens = <<Token("EOF", NoLiteral, "", 1)>>)
    /\ [][UnterminatedNext =>
              /\ scanner'.tokens = scanner.tokens
              /\ scanner'.errors = Append(scanner.errors, UnterminatedReport)
              /\ Scanner_is_at_end(scanner')
              /\ stderr' = Append(stderr, ReportLine(UnterminatedReport))
              /\ HAD_ERROR'
              /\ PushEOF(ScanLoop(scanner)).errors = scanner'.errors
              /\ PushEOF(ScanLoop(scanner)).tokens =
                     Append(scanner.tokens,
                            Token("EOF", NoLiteral, "",
                                  UnterminatedReport.line))]_vars

\* scan_tokens has returned for `1"`, a line end and `a`: the Number token
\* and the EOF token, and the report on line 2.
C19_UnterminatedScanned ==
    /\ mode = "scan"
    /\ scanPhase = "done"
    /\ scanner.source = <<"1", "\"", "\n", "a">>
    /\ Len(scanner.tokens) = 2
    /\ scanner.tokens[1].token_type = "Number"
    /\ scanner.tokens[2] = Token("EOF", NoLiteral, "", 2)
    /\ scanner.errors = <<LoxError(2, "Unterminated string.")>>

\* Whether a lexeme, white space or a comment starts with the character.
StartsLexeme(c) ==
    \/ c \in {"(", ")", "{", "}", ",", ".", "-", "+", ";", "*", "!", "=",
              "<", ">", "/", " ", "\r", "\t", "\n", "\""}
    \/ c \in Digits
    \/ c \in Letters

\* scan_tokens is about to scan a character that starts no lexeme.
UnexpectedNext ==
    /\ mode = "scan"
    /\ scanPhase = "loop"
    /\ ~Scanner_is_at_end(scanner)
    /\ ~StartsLexeme(Scanner_peek(scanner))

UnexpectedReport == LoxError(scanner.line, "Unexpected character.")

\* The loop of scan_tokens on the text after the current character alone,
\* from the current line on.
RestScanned ==
    ScanLoop([Scanner_new(SubSeq(scanner.source, scanner.current + 2,
                                 Len(scanner.source)))
                  EXCEPT !.line = scanner.line])

\* The loop of scan_tokens from here on with a space for the current
\* character.
BlankedScanned ==
    ScanLoop([scanner EXCEPT !.source[scanner.current + 1] = " "])

\* C20: a character that starts no lexeme is reported once, with
\* `Unexpected character.` and the current line, and no token is pushed for
\* it; the loop goes on with the next character, and pushes after it the
\* tokens, with their kinds and lines, of the text after it: the tokens are
\* those pushed with a space in the place of the character.
C20_UnexpectedCharacter ==
    [][UnexpectedNext =>
           /\ scanner'.tokens = scanner.tokens
           /\ scanner'.errors = Append(scanner.errors, UnexpectedReport)
           /\ scanner'.current = scanner.current + 1
           /\ scanner'.line = scanner.line
           /\ stderr' = Append(stderr, ReportLine(UnexpectedReport))
           /\ HAD_ERROR'
           /\ ScanLoop(scanner).tokens = scanner.tokens \o RestScanned.tokens
           /\ ScanLoop(scanner).errors =
                  scanner'.errors \o RestScanned.errors
           /\ ScanLoop(scanner).tokens = BlankedScanned.tokens
           /\ ScanLoop(scanner).line = BlankedScanned.line]_vars

\* scan_tokens has returned for `1@`, a line end and `a`: the report on line
\* 1, and the Number token of line 1 and the Identifier token of line 2.
C20_ScannedPastUnexpected ==
    /\ mode = "scan"
    /\ scanPhase = "done"
    /\ scanner.source = <<"1", "@", "\n", "a">>
    /\ scanner.errors = <<LoxError(1, "Unexpected character.")>>
    /\ Len(scanner.tokens) = 3
    /\ scanner.tokens[1].token_type = "Number"
    /\ scanner.tokens[2].token_type = "Identifier"
    /\ scanner.tokens[2].line = 2
    /\ scanner.tokens[3] = Token("EOF", NoLiteral, "", 2)

\* The number of line ends among the characters consumed so far.
NewlinesConsumed(s) ==
    Cardinality({i \in 1..s.current : s.source[i] = "\n"})

\* scan_tokens is about to scan a `//` comment.
CommentNext ==
    /\ Scanner_peek(scanner) = "/"
    /\ Scanner_peek_next(scanner) = "/"

LinesScan == scan_tokens(Chars("\n\n()"))

\* C21: the line counter is 1 plus the number of line ends consumed so far,
\* those inside string literals and the one after a comment included, and a
\* token pushed carries the line counter as it is then; a comment pushes no
\* token and stops before the line end; two line ends then `()` give
\* LeftParen, RightParen and EOF on line 3.
C21_LinesTracked ==
    /\ [](/\ mode = "scan" => scanner.line = 1 + NewlinesConsumed(scanner)
          /\ LinesScan.tokens = <<Token("LeftParen", NoLiteral, "(", 3),
                                  Token("RightParen", NoLiteral, ")", 3),
                                  Token("EOF", NoLiteral, "", 3)>>)
    /\ [][(mode = "scan" /\ scanPhase = "loop") =>
              /\ \A i \in (Len(scanner.tokens) + 1)..Len(scanner'.tokens) :
                     /\ scanner'.tokens[i].line = scanner'.line
                     /\ scanner'.tokens[i].line =
                            1 + NewlinesConsumed(scanner')
              /\ CommentNext =>
                     /\ scanner'.tokens = scanner.tokens
                     /\ scanner'.line = scanner.line
                     /\ \/ Scanner_is_at_end(scanner')
                        \/ Scanner_peek(scanner') = "\n"]_vars

\* scan_tokens has returned for a comment, a line end and `(`: the
\* LeftParen token and the EOF token, on line 2.
C21_TokenAfterComment ==
    /\ mode = "scan"
    /\ scanPhase = "done"
    /\ scanner.source = <<"/", "/", "\n", "(">>
    /\ scanner.tokens = <<Token("LeftParen", NoLiteral, "(", 2),
                          Token("EOF", NoLiteral, "", 2)>>

\* The number of characters of `source` up to the end of the run of digits
\* that starts after the first `from` characters.
DigitRunEnd(source, from) ==
    CHOOSE e \in from..Len(source) :
        /\ \A k \in (from + 1)..e : source[k] \in Digits
        /\ e = Len(source) \/ source[e + 1] \notin Digits

\* The same up to the end of the number lexeme: the run of digits and, if a
\* `.` and a digit follow it, the `.` and the run of digits after it.
NumberEnd(source, from) ==
    LET e == DigitRunEnd(source, from)
    IN  IF e + 2 <= Len(source) /\ source[e + 1] = "."
              /\ source[e + 2] \in Digits
        THEN DigitRunEnd(source, e + 1)
        ELSE e

\* scan_tokens is about to scan a digit.
NumberNext ==
    /\ mode = "scan"
    /\ scanPhase = "loop"
    /\ Scanner_peek(scanner) \in Digits

TrailingDotScan == scan_tokens(Chars("123."))

FractionScan == scan_tokens(Chars("123.456"))

\* C22: a number lexeme is the longest run of digits at the current
\* character and, if a `.` and a digit follow it, the `.` and the longest
\* run of digits after it; a `.` that no digit follows is left to be scanned
\* next: `123.` gives Number(123), Dot, EOF and `123.456` one Number, EOF.
C22_NumberLexeme ==
    /\ [](/\ TrailingDotScan.tokens = <<Token("Number", 123000, "123", 1),
                                        Token("Dot", NoLiteral, ".", 1),
                                        Token("EOF", NoLiteral, "", 1)>>
          /\ FractionScan.tokens = <<Token("Number", 123456, "123.456", 1),
                                     Token("EOF", NoLiteral, "", 1)>>
          /\ TrailingDotScan.errors = <<>>
          /\ FractionScan.errors = <<>>)
    /\ [][NumberNext =>
              /\ scanner'.current =
                     NumberEnd(scanner.source, scanner.current)
              /\ Len(scanner'.tokens) = Len(scanner.tokens) + 1
              /\ scanner'.tokens[Len(scanner'.tokens)].token_type = "Number"
              /\ scanner'.tokens[Len(scanner'.tokens)].lexeme =
                     StringFromIter(SubSeq(scanner.source,
                                           scanner.current + 1,
                                           scanner'.current))
              /\ scanner'.errors = scanner.errors]_vars

\* scan_tokens has returned for `1.1.`: the Number token of `1.1`, the Dot
\* token and the EOF token.
C22_FractionThenDot ==
    /\ mode = "scan"
    /\ scanPhase = "done"
    /\ scanner.tokens = <<Token("Number", 1100, "1.1", 1),
                          Token("Dot", NoLiteral, ".", 1),
                          Token("EOF", NoLiteral, "", 1)>>

\* scan_tokens is about to scan a `"` that another `"` follows.
TerminatedNext ==
    /\ mode = "scan"
    /\ scanPhase = "loop"
    /\ Scanner_peek(scanner) = "\""
    /\ \E i \in (scanner.current + 2)..Len(scanner.source) :
           scanner.source[i] = "\""

\* The number of characters up to and including the closing `"`.
ClosingQuote ==
    CHOOSE q \in (scanner.current + 2)..Len(scanner.source) :
        /\ scanner.source[q] = "\""
        /\ \A i \in (scanner.current + 2)..(q - 1) : scanner.source[i] # "\""

AbcScan == scan_tokens(Chars("\"abc\""))

\* C23: a string literal with its closing `"` gives one String token whose
\* value is the text between the two `"` and whose lexeme is the text from
\* the opening to the closing `"`, both included (`"abc"` gives String(abc)
\* of lexeme `"abc"`, then EOF); the lexeme of every token pushed by an
\* iteration is the text the iteration has consumed.
C23_StringToken ==
    /\ [](AbcScan.tokens = <<Token("String", "abc", "\"abc\"", 1),
                             Token("EOF", NoLiteral, "", 1)>>)
    /\ [][(mode = "scan" /\ scanPhase = "loop") =>
              /\ \A i \in (Len(scanner.tokens) + 1)..Len(scanner'.tokens) :
                     scanner'.tokens[i].lexeme =
                         IF scanPhase' = "done" THEN ""
                         ELSE StringFromIter(SubSeq(scanner.source,
                                                    scanner.current + 1,
                                                    scanner'.current))
              /\ TerminatedNext =>
                     /\ scanner'.current = ClosingQuote
                     /\ scanner'.errors = scanner.errors
                     /\ scanner'.tokens =
                            Append(scanner.tokens,
                                   Token("String",
                                         StringFromIter(
                                             SubSeq(scanner.source,
                                                    scanner.current + 2,
                                                    ClosingQuote - 1)),
                                         StringFromIter(
                                             SubSeq(scanner.source,
                                                    scanner.current + 1,
                                                    ClosingQuote)),
                                         scanner'.line))]_vars

\* scan_tokens has returned for `"a"1`: the String token of value `a` and
\* lexeme `"a"`, the Number token and the EOF token.
C23_StringThenNumber ==
    /\ mode = "scan"
    /\ scanPhase = "done"
    /\ scanner.tokens = <<Token("String", "a", "\"a\"", 1),
                          Token("Number", 1000, "1", 1),
                          Token("EOF", NoLiteral, "", 1)>>

\* The values that count as false.
Falsy(v) == v \in {False, Nil, Number(0), String("")}

\* The value a was bound to when the statement was run.
ValueOfA == get(observed.environment, "a").some

\* What the statement of TruthStatements that has been run prints when a
\* counts as true and when it counts as false.
PrintedWhen(stmt, truthy) ==
    CASE stmt = NotOfA -> IF truthy THEN <<"false\n">> ELSE <<"true\n">>
      [] stmt = IfElseOfA -> IF truthy THEN <<"then\n">> ELSE <<"else\n">>
      [] stmt = IfOfA -> IF truthy THEN <<"then\n">> ELSE <<>>
      [] stmt = WhileOfA -> IF truthy THEN <<"body\n">> ELSE <<>>
      [] stmt = AndOfA -> IF truthy THEN <<"right\n">>
                          ELSE println(<<>>, ValueOfA)
      [] stmt = OrOfA -> IF truthy THEN println(<<>>, ValueOfA)
                         ELSE <<"right\n">>

\* C24: is_truthy is false of False, Nil, the number zero and the empty
\* string and true of every other value, and it is what decides the value of
\* `!`, the branch of `if`, whether `while` runs its body, and whether `and`
\* and `or` stop at their left operand.
C24_Truthiness ==
    /\ \A v \in TruthValues : is_truthy(v) = ~Falsy(v)
    /\ (mode = "truth" /\ pending = <<>>) =>
           /\ stdout = PrintedWhen(statements[1], ~Falsy(ValueOfA))
           /\ stderr = <<>>
           /\ get(environment, "a") =
                  IF statements[1] = WhileOfA /\ ~Falsy(ValueOfA)
                  THEN Some(Nil)
                  ELSE Some(ValueOfA)

\* `while (a) { print "body"; a = nil; }` has been run where a is the
\* number zero: the body has not been run.
C24_ZeroStopsWhile ==
    /\ mode = "truth"
    /\ pending = <<>>
    /\ statements[1] = WhileOfA
    /\ ValueOfA = Number(0)
    /\ stdout = <<>>
    /\ get(environment, "a") = Some(Number(0))

\* The callee of a case and its arguments, in the order of the tokens.
CalleeOf(c) ==
    IF c.calls = 1 THEN Variable("a") ELSE Call(Variable("a"), <<>>)

ArgumentsUpTo(n) == [i \in 1..n |-> Literal(Number(i * 1000))]

\* The number of tokens up to and including the `)` of the last call.
CallEnd(c) == Len(CallTokens(c)) - 2

\* The report of the argument after the last one allowed, at its token.
TooManyReport ==
    Report(1, "'" \o ToString(MaxArguments + 1) \o "'",
           "Can't have more than 255 arguments.")

\* C25: a call with at most 255 arguments is parsed into the Call of the
\* callee with the arguments in the order of the source; with more, `Can't
\* have more than 255 arguments.` is reported, at the argument after the
\* 255th, and call() returns a ParseError.
C25_CallArity ==
    mode = "call" =>
        /\ observed.arguments = ArgumentsUpTo(Len(observed.arguments))
        /\ Len(observed.arguments) <= 255
        /\ observed.phase = "returned" =>
               /\ observed.case.n <= 255
               /\ observed.expression =
                      Call(CalleeOf(observed.case),
                           ArgumentsUpTo(observed.case.n))
               /\ parser.errors = <<>>
               /\ stderr = <<>>
               /\ parser.current = CallEnd(observed.case)
               /\ observed.case.n <= 3 =>
                      call(Parser_new(parser.tokens)) =
                          Ok(observed.expression, parser)
        /\ observed.phase = "failed" =>
               /\ observed.case.n > 255
               /\ parser.errors = <<TooManyReport>>
               /\ stderr = <<ReportLine(TooManyReport)>>
        /\ observed.phase = "close" => parser.errors = <<>>

\* The loop of complete_call has pushed 255 arguments of a call with 256 and
\* returned the ParseError.
C25_TooManyArguments ==
    /\ mode = "call"
    /\ observed.phase = "failed"
    /\ observed.case.n = 256
    /\ Len(observed.arguments) = 255
    /\ observed.arguments[255] = Literal(Number(255000))
    /\ parser.errors = <<TooManyReport>>

FormattedLine(r) ==
    "[line " \o ToString(r.line) \o "] Error"
        \o (IF r.at = "" THEN "" ELSE " at " \o r.at)
        \o ": " \o r.message \o "\n"

\* The reports a step of the process makes: those of the scanner, of the
\* parser, and of the statement evaluated.
StepReports ==
    NewReports(scanner.errors, scanner'.errors)
        \o NewReports(parser.errors, parser'.errors)
        \o (IF observed'.runtimeErrors > observed.runtimeErrors
            THEN <<LoxError(0, Stmt_evaluate(Head(pending), environment,
                                             stdout).message)>>
            ELSE <<>>)

\* C27: every diagnostic is written as `[line <N>] Error <AT>: <MESSAGE>`,
\* <AT> being empty for the errors of the scanner and of the evaluation,
\* `at end` when the current token of the parser is EOF and `at '<lexeme>'`
\* for any other current token.
C27_DiagnosticFormat ==
    [][(mode \in {"file", "repl"} /\ pc \in {"run", "evaluate"}
            /\ pc' \in {"run", "evaluate"}) =>
           stderr' = stderr \o [i \in 1..Len(StepReports) |->
                                    FormattedLine(StepReports[i])]]_vars

\* The same with the line the claim's format gives replaced, for a report
\* without a place, by the line with `at` and nothing after it.
C27_WrittenWithAt ==
    [][(mode \in {"file", "repl"} /\ pc \in {"run", "evaluate"}
            /\ pc' \in {"run", "evaluate"}) =>
           stderr' = stderr \o [i \in 1..Len(StepReports) |->
                                    IF StepReports[i].at = ""
                                    THEN "[line "
                                             \o ToString(StepReports[i].line)
                                             \o "] Error at : "
                                             \o StepReports[i].message
                                             \o "\n"
                                    ELSE FormattedLine(StepReports[i])]]_vars

\* `print l op r;` has been run.
BinaryRan == mode = "binary" /\ pending = <<>>

\* The left operand of the statement run, evaluated in the environment the
\* run started in, and the right operand, evaluated in the environment the
\* left operand has left.
LeftFirst == Expr_evaluate(statements[1].expr.left, observed.environment)

RightSecond ==
    Expr_evaluate(statements[1].expr.right, LeftFirst.environment)

\* Whether the operator evaluates its right operand after a left operand
\* of this value.
EvaluatesRight(op, left) ==
    \/ op \in {"EqualEqual", "BangEqual", "LessThan", "LessEqualThan",
               "GreaterThan", "GreaterEqualThan"}
    \/ left.type = "Number"
    \/ op = "Add" /\ left.type = "String"

\* The statement run has failed with this message.
FailedWith(message) ==
    /\ stdout = <<>>
    /\ stderr = <<ReportLine(LoxError(0, message))>>

LeftThenRightRun ==
    Run(Chars("var a = 0; print (a = 1) + a; print a - (a = 3); print a;"),
        Environment_new)

EqualityRun ==
    Run(Chars("var a = 0; print (a = 1) == (a = 2); print a; "
                  \o "print (a = nil) != (a = 5); print a;"),
        Environment_new)

LeftErrorRun ==
    Run(Chars("var a = 0; print u == (a = 1); print a; "
                  \o "print u < (a = 1); print a;"),
        Environment_new)

\* C28: a Binary expression evaluates its left operand, then its right
\* operand in the environment the left one has left, and `==` and `!=`
\* evaluate the right operand whatever the value of the left one: the
\* assignments of both operands take effect, the left one's first; when the
\* left operand fails, its error is the result and the right operand is not
\* evaluated.
C28_LeftBeforeRight ==
    /\ BinaryRan =>
           /\ ~LeftFirst.ok =>
                  /\ FailedWith(LeftFirst.val)
                  /\ environment = LeftFirst.environment
           /\ (LeftFirst.ok /\ EvaluatesRight(statements[1].expr.op,
                                              LeftFirst.val)) =>
                  /\ environment = RightSecond.environment
                  /\ ~RightSecond.ok => FailedWith(RightSecond.val)
           /\ (LeftFirst.ok /\ RightSecond.ok
                   /\ statements[1].expr.op \in {"EqualEqual", "BangEqual"}) =>
                  stdout = println(<<>>,
                                   FromBool((LeftFirst.val = RightSecond.val)
                                                = (statements[1].expr.op
                                                       = "EqualEqual")))
    /\ LeftThenRightRun.stdout = <<"2\n", "-2\n", "3\n">>
    /\ EqualityRun.stdout = <<"false\n", "2\n", "true\n", "5\n">>
    /\ LeftErrorRun.stdout = <<"0\n", "0\n">>
    /\ LeftErrorRun.errors = <<"Undefined variable", "Undefined variable">>

\* `print (a = 1) == (a = 2);` has been run: false is printed and a is 2.
C28_BothAssigned ==
    /\ BinaryRan
    /\ statements[1] =
           PrintStmt(Binary(Assign("a", Literal(Number(1000))), "EqualEqual",
                            Assign("a", Literal(Number(2000)))))
    /\ stdout = <<"false\n">>
    /\ get(environment, "a") = Some(Number(2000))

\* What `+`, `-`, `*`, `/` and the comparisons yield of two values: Some of
\* the result, or None when they fail.
BinaryResult(op, x, y) ==
    IF x.type = "Number" /\ y.type = "Number"
    THEN Some(IF op = "Add" THEN Number(x.n + y.n)
              ELSE IF op \in {"Sub", "Mul", "Div"} THEN Arithmetic(op, x, y)
              ELSE FromBool(Compare(op, x, y)))
    ELSE IF op = "Add" /\ x.type = "String" /\ y.type = "String"
    THEN Some(String(x.s \o y.s))
    ELSE None

\* C29: `+` yields the sum of two numbers and the concatenation, left then
\* right, of two strings, and fails for operands of any other kinds; `-`,
\* `*`, `/`, `<`, `<=`, `>` and `>=` yield a result of two numbers and fail
\* for operands of any other kinds.
C29_OperandKinds ==
    (BinaryRan /\ LeftFirst.ok /\ RightSecond.ok
         /\ statements[1].expr.op \notin {"EqualEqual", "BangEqual"}) =>
        LET result == BinaryResult(statements[1].expr.op, LeftFirst.val,
                                   RightSecond.val)
        IN  IF result # None
            THEN /\ stdout = println(<<>>, result.some)
                 /\ stderr = <<>>
            ELSE /\ stdout = <<>>
                 /\ Len(stderr) = 1
                 /\ observed.runtimeErrors = 1

\* `print "x" + 2;` has been run: nothing is printed and the error is
\* reported.
C29_StringPlusNumber ==
    /\ BinaryRan
    /\ statements[1] =
           PrintStmt(Binary(Literal(String("x")), "Add",
                            Literal(Number(2000))))
    /\ stdout = <<>>
    /\ Diagnosed("string value cannot be added to non-string value")

\* The case of LadderCases whose program is being run.
LadderCase == CHOOSE c \in LadderCases : Chars(LadderText(c)) = scanner.source

\* The level of an infix operator on the ladder, the lowest first.
Level(o) ==
    CASE o = "=" -> 1
      [] o = "or" -> 2
      [] o = "and" -> 3
      [] o \in {"==", "!="} -> 4
      [] o \in {"<", "<=", ">", ">="} -> 5
      [] o \in {"+", "-"} -> 6
      [] o \in {"*", "/"} -> 7

\* The expression of an infix operator and its two operands.
Node(left, o, right) ==
    CASE o = "=" -> Assign(left.name, right)
      [] o = "or" -> Logical(left, "Or", right)
      [] o = "and" -> Logical(left, "And", right)
      [] o = "==" -> Binary(left, "EqualEqual", right)
      [] o = "!=" -> Binary(left, "BangEqual", right)
      [] o = "<" -> Binary(left, "LessThan", right)
      [] o = "<=" -> Binary(left, "LessEqualThan", right)
      [] o = ">" -> Binary(left, "GreaterThan", right)
      [] o = ">=" -> Binary(left, "GreaterEqualThan", right)
      [] o = "+" -> Binary(left, "Add", right)
      [] o = "-" -> Binary(left, "Sub", right)
      [] o = "*" -> Binary(left, "Mul", right)
      [] o = "/" -> Binary(left, "Div", right)

\* `a o1 b = c` where o1 is not `=`: the target of the assignment is not a
\* variable.
TargetIsInfix(c) == c.o2 = "=" /\ c.o1 # "="

\* The tree of `a o1 b o2 c` by the ladder: the operator of the higher
\* level takes the operands next to it, operators of one level group to
\* the left and `=` to the right.
LadderTree(c) ==
    IF Level(c.o2) > Level(c.o1) \/ (c.o1 = "=" /\ c.o2 = "=")
    THEN Node(Variable("a"), c.o1, Node(Variable("b"), c.o2, Variable("c")))
    ELSE Node(Node(Variable("a"), c.o1, Variable("b")), c.o2, Variable("c"))

\* Once parse() has returned on a program of LadderCases.
LadderParseDone == mode = "ladder" /\ parsePhase = "done"

NumberLiteral(n) == Literal(Number(n * 1000))

\* C30: expressions are parsed by the ladder assignment < or < and <
\* equality < comparison < term < factor < unary < call, the binary and
\* logical operators of one level grouping to the left and assignment to the
\* right: `a o1 b o2 c` is parsed into the tree of the ladder for all infix
\* operators o1 and o2, except that `a o1 b = c` with o1 other than `=` is
\* reported as an invalid assignment target and parsed into `a o1 b`; a
\* unary operator takes its operand before any infix operator and a call
\* its callee before any unary operator.
C30_PrecedenceLadder ==
    /\ LadderParseDone =>
           IF TargetIsInfix(LadderCase)
           THEN /\ statements =
                       <<ExpressionStmt(Node(Variable("a"), LadderCase.o1,
                                             Variable("b")))>>
                /\ parser.errors =
                       <<Report(1, "';'", "Invalid assignment target.")>>
           ELSE /\ statements = <<ExpressionStmt(LadderTree(LadderCase))>>
                /\ parser.errors = <<>>
    /\ ExprOf("1 - 2 - 3") =
           Binary(Binary(NumberLiteral(1), "Sub", NumberLiteral(2)), "Sub",
                  NumberLiteral(3))
    /\ ExprOf("1 + 2 * 3") =
           Binary(NumberLiteral(1), "Add",
                  Binary(NumberLiteral(2), "Mul", NumberLiteral(3)))
    /\ ExprOf("a or b and c") =
           Logical(Variable("a"), "Or",
                   Logical(Variable("b"), "And", Variable("c")))
    /\ ExprOf("a = b = 1") = Assign("a", Assign("b", NumberLiteral(1)))
    /\ ExprOf("-a * b") =
           Binary(Unary("Neg", Variable("a")), "Mul", Variable("b"))
    /\ ExprOf("!a == !b") =
           Binary(Unary("Bang", Variable("a")), "EqualEqual",
                  Unary("Bang", Variable("b")))
    /\ ExprOf("-f(a)(b)") =
           Unary("Neg", Call(Call(Variable("f"), <<Variable("a")>>),
                             <<Variable("b")>>))

\* `a - b - c;` has been parsed into Binary(Binary(a, -, b), -, c).
C30_SubtractionToTheLeft ==
    /\ LadderParseDone
    /\ LadderCase = [o1 |-> "-", o2 |-> "-"]
    /\ statements =
           <<ExpressionStmt(Binary(Binary(Variable("a"), "Sub",
                                          Variable("b")),
                                   "Sub", Variable("c")))>>

\* Whether an arithmetic operator rejects a left operand of this value
\* whatever the right operand is.
RejectsLeft(op, left) ==
    \/ op \in {"Sub", "Mul", "Div"} /\ left.type # "Number"
    \/ op = "Add" /\ left.type \in {"True", "False", "Nil"}

\* The value a is bound to after the statement.
BoundToA == get(environment, "a")

\* What a program that binds a to 0, prints the expression and then prints
\* a writes and how many errors it reports.
AfterPrinting(text) ==
    LET ran == Run(Chars("var a = 0; print " \o text \o "; print a;"),
                   Environment_new)
    IN  [stdout |-> ran.stdout, errors |-> Len(ran.errors)]

RejectedLeftRuns ==
    <<AfterPrinting("true + (a = 1)"), AfterPrinting("nil + (a = 2)"),
      AfterPrinting("(a = \"s\") - (a = 3)"), AfterPrinting("nil * (a = 4)"),
      AfterPrinting("false / (a = 5)"), AfterPrinting("\"x\" + (a = \"y\")")>>

ComparedBothRuns ==
    <<AfterPrinting("true < (a = 1)"), AfterPrinting("nil <= (a = 2)"),
      AfterPrinting("\"x\" > (a = 3)"),
      AfterPrinting("(a = \"s\") >= (a = 4)")>>

\* C31: when the left operand of `+`, `-`, `*` or `/` is of a kind the
\* operator rejects (any non-number for `-`, `*` and `/`, a boolean or nil
\* for `+`), the error of the operator is the result and the right operand
\* is not evaluated, so that what it assigns stays unassigned and an
\* unbound variable in it is not reported; a comparison evaluates both
\* operands, the right one with its assignments, before it fails on their
\* kinds.
C31_RejectedLeftSkipsRight ==
    /\ (BinaryRan /\ LeftFirst.ok
            /\ RejectsLeft(statements[1].expr.op, LeftFirst.val)) =>
           /\ environment = LeftFirst.environment
           /\ FailedWith(NonNumberLeft(statements[1].expr.op, LeftFirst.val))
           /\ statements[1].expr.left.kind = "Literal" =>
                  BoundToA = Some(Number(0))
    /\ (BinaryRan /\ LeftFirst.ok
            /\ statements[1].expr.op \in {"LessThan", "LessEqualThan",
                                          "GreaterThan", "GreaterEqualThan"}) =>
           /\ environment = RightSecond.environment
           /\ statements[1].expr.right.kind = "Assign" =>
                  BoundToA = Some(statements[1].expr.right.value.value)
           /\ (RightSecond.ok /\ ~(LeftFirst.val.type = "Number"
                                       /\ RightSecond.val.type = "Number")) =>
                  FailedWith("comparison can only between two numbers")
           /\ ~RightSecond.ok => FailedWith(RightSecond.val)
    /\ RejectedLeftRuns =
           <<[stdout |-> <<"0\n">>, errors |-> 1],
             [stdout |-> <<"0\n">>, errors |-> 1],
             [stdout |-> <<"s\n">>, errors |-> 1],
             [stdout |-> <<"0\n">>, errors |-> 1],
             [stdout |-> <<"0\n">>, errors |-> 1],
             [stdout |-> <<"xy\n", "y\n">>, errors |-> 0]>>
    /\ ComparedBothRuns =
           <<[stdout |-> <<"1\n">>, errors |-> 1],
             [stdout |-> <<"2\n">>, errors |-> 1],
             [stdout |-> <<"3\n">>, errors |-> 1],
             [stdout |-> <<"4\n">>, errors |-> 1]>>

\* `print true - (a = 2);` has been run: the error of the subtraction is
\* reported and a is still 0.
C31_RightNotAssigned ==
    /\ BinaryRan
    /\ statements[1] =
           PrintStmt(Binary(Literal(True), "Sub",
                            Assign("a", Literal(Number(2000)))))
    /\ stdout = <<>>
    /\ Diagnosed("subtraction operand cannot be non-number")
    /\ BoundToA = Some(Number(0))

=============================================================================
